---- MODULE Spec2Model ----
(***************************************************************************)
(* A model of main_app.py, the firmware of the Pico colour weather clock.  *)
(*                                                                         *)
(* The program is modelled as independent groups of state, one per        *)
(* subsystem, each with its own specification:                             *)
(*   SpecUpdate  - the update server of start_update_mode                  *)
(*   SpecButton  - the setup switch interrupt and the loop that polls its  *)
(*                 flag (SpecButtonLive: the same with fairness)           *)
(*   SpecWeather - get_nws_metadata and get_weather_data on their own      *)
(*   SpecForecast - display_weather with simplify_forecast and the icon    *)
(*   SpecStream  - the three rolling-buffer stream scanners                *)
(*   SpecBoot    - load_settings and the module-level boot sequence        *)
(*   SpecRun     - application_mode with get_weather_data                  *)
(* A specification leaves the variables of the other groups unchanged.     *)
(***************************************************************************)
EXTENDS Integers, Sequences, FiniteSets, TLC

VARIABLES
  \* ---- update server (start_update_mode) ----
  fs,                   \* the flash file system: file name -> content, NoFile if absent
  expected_checksums,   \* the manifest dict, as its items in iteration order
  continue_requested,   \* global continue_requested
  timer_armed,          \* the one-shot machine.Timer of continue_handler is pending
  upd_reset,            \* machine.reset() was called while in update mode
  upd_resp,             \* the Response of the request handled last
  fin_log,              \* the file operations of the finalize handled last, in order
  upd_applied,          \* some finalize has answered "Update verified and applied"
  \* ---- setup switch interrupt (setup_sw_handler) ----
  press_time,           \* global press_time: <<>> for None, <<t>> for the ticks value t
  long_press_triggered, \* global long_press_triggered
  start_update_requested, \* global start_update_requested
  ticks,                \* time.ticks_ms(), in seconds, wrapping at TicksPeriod
  btn_held,             \* seconds really elapsed since the press handled last
  btn_evt,              \* the interrupt handled last, until time moves on
  btn_before,           \* press_time and the flag as the release handled last found them
  btn_sets,             \* assignments of True to the flag since the press handled last
  app_updating,         \* application_mode has consumed the flag and started update mode
  loop_pc,              \* the statement of the loop of application_mode to run next
  btn_pending,          \* a release raised the flag that was False, and update mode has not started since
  \* ---- stream scanners ----
  sx_kind,              \* which scanner runs, and for the numeric one with which pattern
  sx_stream,            \* the bytes the source will deliver, as tokens
  sx_pos,               \* how many of them have been read
  sx_buf,               \* buf, the rolling buffer
  sx_pc,                \* "reading" inside the while loop, "done" after the return
  sx_result,            \* the value returned: <<>> for None, <<v>> for v
  sx_peak,              \* the longest buf has been, right after "buf += chunk"
  sx_short,             \* some read returned less than it asked for before the end
  sx_reads,             \* calls of stream.read so far
  sx_searched,          \* the buffer as the search of the last pass saw it
  \* ---- boot sequence (module level) ----
  settings_file,        \* settings.json on flash
  boot_pc,              \* where the boot sequence stands
  boot_settings,        \* the module's variable settings: <<>> for None, <<dict>>
  boot_status,          \* status, as load_settings returned it in this boot
  boot_loaded,          \* the file as load_settings read it, until the file is rewritten
  wifi_current_attempt, \* wifi_current_attempt
  wifi_connected,       \* is_connected_to_wifi()
  boot_timer,           \* the one-shot timer of ap_configure is pending
  boot_reset_by,        \* which statement performed the last reset ("power_on" for none)
  boot_switch,          \* what the reads of the setup switch of the last boot found
  \* ---- application_mode ----
  run_pc,               \* where application_mode stands
  run_latlon,           \* settings["lat"], settings["lon"] as application_mode gets them
  lat_lon_complete,     \* lat_lon_complete
  metadata,             \* metadata: <<>> for None, <<dict>>
  run_sample,           \* <<temp, humidity, forecast>>
  run_screen,           \* what the lower part of the display shows
  run_elapsed,          \* current_time - last_weather_update, in seconds
  run_fetch,            \* how the last call of get_weather_data ended
  run_blocked,          \* seconds the loop has been inside get_weather_data
  \* ---- get_nws_metadata and get_weather_data, called on their own ----
  wx_pc,                \* "resolve", "fetch", "done"
  wx_point,             \* what get_nws_metadata meets
  wx_metadata,          \* what get_nws_metadata returned
  wx_env,               \* what the requests of get_weather_data meet
  wx_result,            \* what get_weather_data returned
  wx_http,              \* the requests get_weather_data made and their responses
  \* ---- simplify_forecast, called on its own ----
  sf_pc,                \* "call", "done"
  sf_forecast,          \* the argument forecast
  sf_line,              \* what simplify_forecast returned
  sf_day,               \* is_daytime() when the icon was drawn
  sf_icon               \* the icon file draw_weather_icon selected

updVars == <<fs, expected_checksums, continue_requested, timer_armed, upd_reset,
             upd_resp, fin_log, upd_applied>>

btnVars == <<press_time, long_press_triggered, start_update_requested, ticks,
             btn_held, btn_evt, btn_before, btn_sets, app_updating, loop_pc,
             btn_pending>>

sxVars == <<sx_kind, sx_stream, sx_pos, sx_buf, sx_pc, sx_result, sx_peak, sx_short,
            sx_reads, sx_searched>>

bootVars == <<settings_file, boot_pc, boot_settings, boot_status, boot_loaded,
              wifi_current_attempt, wifi_connected, boot_timer, boot_reset_by,
              boot_switch>>

runVars == <<run_pc, run_latlon, lat_lon_complete, metadata, run_sample,
             run_screen, run_elapsed, run_fetch, run_blocked>>

wxVars == <<wx_pc, wx_point, wx_metadata, wx_env, wx_result, wx_http>>

sfVars == <<sf_pc, sf_forecast, sf_line, sf_day, sf_icon>>

vars == <<updVars, btnVars, sxVars, bootVars, runVars, wxVars, sfVars>>

\* What the actions of one group leave alone: the other groups.
notUpd  == <<btnVars, sxVars, bootVars, runVars, wxVars, sfVars>>
notBtn  == <<updVars, sxVars, bootVars, runVars, wxVars, sfVars>>
notSx   == <<updVars, btnVars, bootVars, runVars, wxVars, sfVars>>
notBoot == <<updVars, btnVars, sxVars, runVars, wxVars, sfVars>>
notRun  == <<updVars, btnVars, sxVars, bootVars, wxVars, sfVars>>
notWx   == <<updVars, btnVars, sxVars, bootVars, runVars, sfVars>>
notSf   == <<updVars, btnVars, sxVars, bootVars, runVars, wxVars>>

\* Python's None where the other values are numbers: the empty tuple, and <<x>> for x
NoneVal == <<>>
Some(x) == <<x>>

(***************************************************************************)
(* Update server: files, digests and manifests                             *)
(***************************************************************************)

\* A file name is <<base, staged>>: base itself, or base followed by ".new".
Bases == {"a.py", "b.py", "main_app.py"}
FileNames == Bases \X BOOLEAN

\* filename.endswith(".new")
EndsWithNew(f) == f[2]

\* filename[:-4]
StripNew(f) == <<f[1], FALSE>>

\* the literal "main_app.py.new"
MainAppNew == <<"main_app.py", TRUE>>

\* The names the update page lists in the manifest: the staged files.
ManifestNames == {<<"a.py", TRUE>>, <<"b.py", TRUE>>, MainAppNew}

\* The names a client sends in /upload?filename=: any name, staged or live.
UploadNames == ManifestNames \cup {<<"a.py", FALSE>>}

NoFile == "absent"
Contents == {"v1", "v2"}

\* hashlib.sha256 over the whole file, hexdigest: distinct contents, distinct digests
Sha256(c) == <<"sha256", c>>

\* The digests a manifest lists: those of the release being installed ("v2");
\* an upload that delivered anything else fails its check.
Digests == {Sha256("v2")}

\* The longest manifest a client posts.
MaxManifest == 2

\* The JSON bodies of POST /checksums: maps file name -> digest, in the dict's
\* iteration order.
Manifests ==
  {m \in UNION {[1..n -> ManifestNames \X Digests] : n \in 0..MaxManifest} :
     \A i, j \in DOMAIN m : i # j => m[i][1] # m[j][1]}

ManifestKeys(m) == {m[i][1] : i \in DOMAIN m}

Op(kind, f) == [op |-> kind, file |-> f]

\* finalize_handler, the validation loop: the failed files, in manifest order
RECURSIVE Validate(_, _)
Validate(m, files) ==
  IF m = <<>> THEN <<>>
  ELSE LET f == Head(m)[1]
           bad == IF files[f] = NoFile THEN TRUE          \* open() raises
                  ELSE Sha256(files[f]) # Head(m)[2]      \* checksum mismatch
       IN (IF bad THEN <<f>> ELSE <<>>) \o Validate(Tail(m), files)

ValidateLog(m) == [i \in DOMAIN m |-> Op("verify", m[i][1])]

\* finalize_handler, the failure branch: os.remove of every manifest file
RECURSIVE Discard(_, _)
Discard(m, files) ==
  IF m = <<>> THEN files
  ELSE Discard(Tail(m), [files EXCEPT ![Head(m)[1]] = NoFile])

DiscardLog(m) == [i \in DOMAIN m |-> Op("remove", m[i][1])]

\* A rename loop that does not set main_app.py.new aside.
EligibleAll(f) == EndsWithNew(f)

\* finalize_handler: the files the rename loop applies
Eligible(f) == EndsWithNew(f) /\ f # MainAppNew

\* finalize_handler, the rename loop from entry i on; the os.rename of entry
\* failAt raises (0: none does), as it does when the staged file is gone.
RECURSIVE Rename(_, _, _, _)
Rename(m, i, files, failAt) ==
  IF i > Len(m) THEN [files |-> files, log |-> <<>>, status |-> 200]
  ELSE LET f == m[i][1] IN
    IF Eligible(f)
    THEN LET final   == StripNew(f)
             removed == [files EXCEPT ![final] = NoFile]
         IN IF i = failAt \/ removed[f] = NoFile
            THEN [files |-> removed,
                  log |-> <<Op("remove", final), Op("rename_failed", f)>>,
                  status |-> 500]
            ELSE LET renamed == [removed EXCEPT ![final] = removed[f], ![f] = NoFile]
                     rest    == Rename(m, i + 1, renamed, failAt)
                 IN [rest EXCEPT !.log = <<Op("remove", final), Op("rename", f)>> \o @]
    ELSE Rename(m, i + 1, files, failAt)

\* A finalize that applies each file as soon as its own digest matched.
RECURSIVE FinalizeEager(_, _, _)
FinalizeEager(m, files, failAt) ==
  IF m = <<>> THEN [files |-> files, log |-> <<>>, status |-> 200]
  ELSE LET one == <<Head(m)>> IN
       IF Validate(one, files) # <<>>
       THEN [files |-> Discard(m, files),
             log |-> ValidateLog(one) \o DiscardLog(m), status |-> 500]
       ELSE LET r    == Rename(one, 1, files, 0)
                rest == FinalizeEager(Tail(m), r.files, failAt)
            IN [rest EXCEPT !.log = ValidateLog(one) \o r.log \o @]

\* A finalize whose failure branch keeps the staged files.
FinalizeKeep(m, files, failAt) ==
  IF Validate(m, files) # <<>>
  THEN [files |-> files, log |-> ValidateLog(m), status |-> 500]
  ELSE LET r == Rename(m, 1, files, failAt)
       IN [r EXCEPT !.log = ValidateLog(m) \o @]

\* finalize_handler as a whole: the file system it leaves, its file operations
\* in order, and the status of its Response
Finalize(m, files, failAt) ==
  IF Validate(m, files) # <<>>
  THEN [files |-> Discard(m, files),
        log |-> ValidateLog(m) \o DiscardLog(m), status |-> 500]
  ELSE LET r == Rename(m, 1, files, failAt)
       IN [r EXCEPT !.log = ValidateLog(m) \o @]

Resp(h, s) == [handler |-> h, status |-> s]

\* start_update_mode up to server.run(): the live files are on flash, nothing
\* is staged, the manifest is empty
UpdInit ==
  /\ fs = [f \in FileNames |-> IF f[2] THEN NoFile ELSE "v1"]
  /\ expected_checksums = <<>>
  /\ continue_requested = FALSE
  /\ timer_armed = FALSE
  /\ upd_reset = FALSE
  /\ upd_resp = Resp("none", 0)
  /\ fin_log = <<>>
  /\ upd_applied = FALSE

UpdIdle == UpdInit
\* POST /checksums with a JSON map
checksums_handler(m) ==
  /\ UNCHANGED notUpd
  /\ ~upd_reset
  /\ expected_checksums' = m
  /\ upd_resp' = Resp("checksums", 200)
  /\ fin_log' = <<>>
  /\ UNCHANGED <<fs, continue_requested, timer_armed, upd_reset, upd_applied>>

\* POST /checksums with a body json.loads rejects
checksums_handler_bad ==
  /\ UNCHANGED notUpd
  /\ ~upd_reset
  /\ upd_resp' = Resp("checksums", 400)
  /\ fin_log' = <<>>
  /\ UNCHANGED <<fs, expected_checksums, continue_requested, timer_armed, upd_reset,
                 upd_applied>>

\* POST /upload?filename=f with body c; ok is FALSE when reading the body raised
\* after part of it was written
upload_handler(f, c, ok) ==
  /\ UNCHANGED notUpd
  /\ ~upd_reset
  /\ fs' = [fs EXCEPT ![f] = c]
  /\ upd_resp' = Resp("upload", IF ok THEN 200 ELSE 500)
  /\ fin_log' = <<>>
  /\ UNCHANGED <<expected_checksums, continue_requested, timer_armed, upd_reset,
                 upd_applied>>

\* POST /upload without a filename
upload_handler_noname ==
  /\ UNCHANGED notUpd
  /\ ~upd_reset
  /\ upd_resp' = Resp("upload", 400)
  /\ fin_log' = <<>>
  /\ UNCHANGED <<fs, expected_checksums, continue_requested, timer_armed, upd_reset,
                 upd_applied>>

\* POST /finalize
finalize_handler(failAt) ==
  /\ UNCHANGED notUpd
  /\ ~upd_reset
  /\ LET r == Finalize(expected_checksums, fs, failAt) IN
       /\ fs' = r.files
       /\ fin_log' = r.log
       /\ upd_resp' = Resp("finalize", r.status)
       /\ upd_applied' = (upd_applied \/ r.status = 200)
  /\ UNCHANGED <<expected_checksums, continue_requested, timer_armed, upd_reset>>

\* POST /continue
continue_handler ==
  /\ UNCHANGED notUpd
  /\ ~upd_reset
  /\ continue_requested' = TRUE
  /\ timer_armed' = TRUE
  /\ upd_resp' = Resp("continue", 200)
  /\ fin_log' = <<>>
  /\ UNCHANGED <<fs, expected_checksums, upd_reset, upd_applied>>

\* delayed_reset, the timer callback of continue_handler: machine.reset() ends
\* update mode; the flash keeps its files and everything in RAM is lost
delayed_reset ==
  /\ UNCHANGED notUpd
  /\ timer_armed
  /\ ~upd_reset
  /\ timer_armed' = FALSE
  /\ upd_reset' = TRUE
  /\ expected_checksums' = <<>>
  /\ continue_requested' = FALSE
  /\ upd_resp' = Resp("none", 0)
  /\ fin_log' = <<>>
  /\ UNCHANGED <<fs, upd_applied>>

NextUpdate ==
  \/ \E m \in Manifests : checksums_handler(m)
  \/ checksums_handler_bad
  \/ \E f \in UploadNames, c \in Contents, ok \in BOOLEAN : upload_handler(f, c, ok)
  \/ upload_handler_noname
  \/ \E failAt \in 0..MaxManifest : finalize_handler(failAt)
  \/ continue_handler
  \/ delayed_reset


(***************************************************************************)
(* Setup switch: the interrupt handler and the flag it shares with the     *)
(* main loop.  The model's clock counts seconds.                           *)
(***************************************************************************)

\* "if duration >= 5000:  # 5 seconds", in seconds
LongPress == 5

\* Half the period of time.ticks_ms(): ticks_diff is defined for times less
\* than half a period apart.
TicksHalf == 8
TicksPeriod == 2 * TicksHalf

\* time.ticks_diff(a, b)
TicksDiff(a, b) == ((a - b + TicksHalf) % TicksPeriod) - TicksHalf

\* A threshold test that misses the boundary.
IsLongPressStrict(duration) == duration > LongPress

\* "duration >= 5000"
IsLongPress(duration) == duration >= LongPress

BtnInit ==
  /\ press_time = NoneVal
  /\ long_press_triggered = FALSE
  /\ start_update_requested = FALSE
  /\ ticks \in 0..(TicksPeriod - 1)
  /\ btn_held = 0
  /\ btn_evt = "idle"
  /\ btn_before = [press |-> NoneVal, flag |-> FALSE]
  /\ btn_sets = 0
  /\ app_updating = FALSE
  /\ loop_pc = "test"
  /\ btn_pending = FALSE

BtnIdle ==
  /\ press_time = NoneVal
  /\ long_press_triggered = FALSE
  /\ start_update_requested = FALSE
  /\ ticks = 0
  /\ btn_held = 0
  /\ btn_evt = "idle"
  /\ btn_before = [press |-> NoneVal, flag |-> FALSE]
  /\ btn_sets = 0
  /\ app_updating = FALSE
  /\ loop_pc = "test"
  /\ btn_pending = FALSE

\* One second passes.  A button is held for less than half a ticks period.
BtnTick ==
  /\ UNCHANGED notBtn
  /\ press_time # NoneVal => btn_held + 1 < TicksHalf
  /\ ticks' = (ticks + 1) % TicksPeriod
  /\ btn_held' = IF press_time # NoneVal THEN btn_held + 1 ELSE btn_held
  /\ btn_evt' = "idle"
  /\ UNCHANGED <<press_time, long_press_triggered, start_update_requested,
                 btn_before, btn_sets, app_updating, loop_pc, btn_pending>>

\* setup_sw_handler(pin) with pin.value() = v
setup_sw_handler(v) ==
  /\ UNCHANGED notBtn
  /\ IF v = 0
     THEN \* falling edge: button pressed
          /\ press_time' = Some(ticks)
          /\ long_press_triggered' = FALSE
          /\ btn_held' = 0
          /\ btn_sets' = 0
          /\ btn_evt' = "press"
          /\ UNCHANGED <<start_update_requested, btn_before, btn_pending>>
     ELSE \* rising edge: button released
          /\ btn_evt' = "release"
          /\ btn_before' = [press |-> press_time, flag |-> start_update_requested]
          /\ IF press_time # NoneVal
             THEN LET duration == TicksDiff(ticks, press_time[1]) IN
                  /\ long_press_triggered' =
                       (IF IsLongPress(duration) THEN TRUE ELSE long_press_triggered)
                  /\ start_update_requested' =
                       (IF IsLongPress(duration) THEN TRUE ELSE start_update_requested)
                  /\ btn_sets' = IF IsLongPress(duration) THEN btn_sets + 1 ELSE btn_sets
                  /\ btn_pending' =
                       (IF IsLongPress(duration) /\ ~start_update_requested /\ ~app_updating
                        THEN TRUE ELSE btn_pending)
                  /\ press_time' = NoneVal
             ELSE UNCHANGED <<long_press_triggered, start_update_requested, btn_sets,
                              press_time, btn_pending>>
          /\ UNCHANGED btn_held
  /\ UNCHANGED <<ticks, app_updating, loop_pc>>

\* application_mode, the head of the loop, "if start_update_requested:": the
\* flag is read, and an interrupt may be served before the statement that follows
loop_test ==
  /\ UNCHANGED notBtn
  /\ loop_pc = "test"
  /\ loop_pc' = IF start_update_requested THEN "clear" ELSE "pass"
  /\ UNCHANGED <<press_time, long_press_triggered, start_update_requested, ticks,
                 btn_held, btn_evt, btn_before, btn_sets, app_updating, btn_pending>>

\* A clear that goes back to the head of the loop.
loop_clear_only ==
  /\ UNCHANGED notBtn
  /\ loop_pc = "clear"
  /\ start_update_requested' = FALSE
  /\ loop_pc' = "test"
  /\ btn_evt' = "idle"
  /\ UNCHANGED <<press_time, long_press_triggered, ticks, btn_held, btn_before,
                 btn_sets, app_updating, btn_pending>>

\* "start_update_requested = False"
loop_clear ==
  /\ UNCHANGED notBtn
  /\ loop_pc = "clear"
  /\ start_update_requested' = FALSE
  /\ loop_pc' = "start"
  /\ btn_evt' = "idle"
  /\ UNCHANGED <<press_time, long_press_triggered, ticks, btn_held, btn_before,
                 btn_sets, app_updating, btn_pending>>

\* "start_update_mode()": the device is in update mode; the return that follows
\* ends application_mode
loop_start_update_mode ==
  /\ UNCHANGED notBtn
  /\ loop_pc = "start"
  /\ app_updating' = TRUE
  /\ loop_pc' = "updating"
  /\ btn_pending' = FALSE
  /\ UNCHANGED <<press_time, long_press_triggered, start_update_requested, ticks,
                 btn_held, btn_evt, btn_before, btn_sets>>

\* A pass that clears the flag on its way back to the head of the loop.
loop_pass_clears ==
  /\ UNCHANGED notBtn
  /\ loop_pc = "pass"
  /\ loop_pc' = "test"
  /\ start_update_requested' = FALSE
  /\ btn_evt' = "idle"
  /\ UNCHANGED <<press_time, long_press_triggered, ticks, btn_held, btn_before,
                 btn_sets, app_updating, btn_pending>>

\* The rest of one pass of the loop, from "current_time = time.time()" to
\* "time.sleep(0.1)": the clock and the weather; it does not name the flag
loop_pass ==
  /\ UNCHANGED notBtn
  /\ loop_pc = "pass"
  /\ loop_pc' = "test"
  /\ UNCHANGED <<press_time, long_press_triggered, start_update_requested, ticks,
                 btn_held, btn_evt, btn_before, btn_sets, app_updating, btn_pending>>

NextButton ==
  \/ BtnTick
  \/ \E v \in {0, 1} : setup_sw_handler(v)
  \/ loop_test
  \/ loop_clear
  \/ loop_start_update_mode
  \/ loop_pass


(***************************************************************************)
(* Stream scanners.  A stream is a sequence of tokens: a token is one byte *)
(* or one fixed byte string of the response that the scanners look for.    *)
(*   "K"  the key with its colon, "temperature": (or "relativeHumidity":)  *)
(*   "V"  "value":        "{" "}" "."  themselves     "7"  a digit         *)
(*   "Kq" "<key>":" , the key_bytes of the string scanner                  *)
(*   "I"  "id":           "q"  a double quote                              *)
(*   "S"  /stations/      "/"  a slash          "x", "a"  any other byte   *)
(* The station list is also given member by member, a whole "id" member    *)
(* being one token:                                                        *)
(*   "N"  "id": "<a URL without /stations/>"                               *)
(*   "A"  "id": "<...>/stations/a"        "B"  "id": "<...>/stations/b"    *)
(***************************************************************************)

\* The longest stream, in tokens.
MaxStream == 4

\* max_buf of extract_first_number_stream_generic and fetch_first_station_id
\* (4096 bytes in the program), in tokens
NumBuf == 3

\* the size asked of stream.read by these two (256 bytes in the program)
NumChunk == 2

\* max_buf of extract_first_json_string_value_stream (1024 bytes in the program)
StrBuf == 2

\* the size asked of response_stream.read by it (128 bytes in the program)
StrChunk == 1

Kinds == {"num_flat", "num_nested", "str", "station", "station_list"}

Alphabet(kind) ==
  CASE kind = "num_flat"   -> {"K", "7", ".", "x"}
    [] kind = "num_nested" -> {"K", "{", "}", "V", "7"}
    [] kind = "str"        -> {"Kq", "q", "a"}
    [] kind = "station"    -> {"I", "q", "S", "/", "a"}
    [] kind = "station_list" -> {"N", "A", "B", "x"}

Streams(kind) == UNION {[1..n -> Alphabet(kind)] : n \in 0..MaxStream}

BufCap(kind) == IF kind = "str" THEN StrBuf ELSE NumBuf
ChunkSize(kind) == IF kind = "str" THEN StrChunk ELSE NumChunk

MinOf(S) == CHOOSE x \in S : \A y \in S : x <= y
MaxOf(S) == CHOOSE x \in S : \A y \in S : x >= y

\* buf[-n:]
LastN(b, n) == IF Len(b) > n THEN SubSeq(b, Len(b) - n + 1, Len(b)) ELSE b

\* b.find(t, from): the first index >= from holding token t, 0 if none
Find(b, t, from) ==
  LET hits == {i \in from..Len(b) : b[i] = t}
  IN IF hits = {} THEN 0 ELSE MinOf(hits)

IsDigit(c) == c \in {"0", "1", "2", "3", "4", "5", "6", "7", "8", "9"}

\* [0-9]+ from the digit at i, greedy: the index of its last digit
RECURSIVE DigitsEnd(_, _)
DigitsEnd(b, i) ==
  IF i + 1 <= Len(b) /\ IsDigit(b[i + 1]) THEN DigitsEnd(b, i + 1) ELSE i

\* The capture group ([0-9]+(?:\.[0-9]+)?) matched at i: its text, or None
Number(b, i) ==
  IF i > Len(b) \/ ~IsDigit(b[i]) THEN NoneVal
  ELSE LET e  == DigitsEnd(b, i)
           e2 == IF e + 2 <= Len(b) /\ b[e + 1] = "." /\ IsDigit(b[e + 2])
                 THEN DigitsEnd(b, e + 2) ELSE e
       IN Some(SubSeq(b, i, e2))

\* prog.search(buf) for  "temperature"\s*:\s*([0-9]+(?:\.[0-9]+)?)  :
\* the leftmost match, group 1
SearchFlat(b) ==
  LET starts == {i \in 1..Len(b) : b[i] = "K" /\ Number(b, i + 1) # NoneVal}
  IN IF starts = {} THEN NoneVal ELSE Number(b, MinOf(starts) + 1)

\* Where "value": and a number can follow the key at i with no "}" in between
NestedValues(b, i) ==
  {j \in (i + 2)..Len(b) :
     /\ b[j] = "V"
     /\ Number(b, j + 1) # NoneVal
     /\ \A k \in (i + 2)..(j - 1) : b[k] # "}"}

\* prog.search(buf) for  "temperature"\s*:\s*\{[^}]*"value"\s*:\s*([0-9]+(?:\.[0-9]+)?)  :
\* the leftmost match, [^}]* taking as much as it can, group 1
SearchNested(b) ==
  LET starts == {i \in 1..Len(b) :
                   /\ b[i] = "K"
                   /\ i + 1 <= Len(b)
                   /\ b[i + 1] = "{"
                   /\ NestedValues(b, i) # {}}
  IN IF starts = {} THEN NoneVal
     ELSE Number(b, MaxOf(NestedValues(b, MinOf(starts))) + 1)

Search(kind, b) == IF kind = "num_flat" THEN SearchFlat(b) ELSE SearchNested(b)

DigitVal(c) ==
  CASE c = "0" -> 0 [] c = "1" -> 1 [] c = "2" -> 2 [] c = "3" -> 3 [] c = "4" -> 4
    [] c = "5" -> 5 [] c = "6" -> 6 [] c = "7" -> 7 [] c = "8" -> 8 [] c = "9" -> 9

RECURSIVE IntOf(_)
IntOf(t) == IF t = <<>> THEN 0 ELSE IntOf(SubSeq(t, 1, Len(t) - 1)) * 10 + DigitVal(t[Len(t)])

RECURSIVE Pow10(_)
Pow10(n) == IF n = 0 THEN 1 ELSE 10 * Pow10(n - 1)

RECURSIVE Reduce(_, _)
Reduce(n, d) == IF d > 1 /\ n % 10 = 0 THEN Reduce(n \div 10, d \div 10) ELSE <<n, d>>

\* float(text) of a matched number: the fraction num/den, den a power of ten
ToFloat(t) ==
  LET dot == Find(t, ".", 1)
  IN IF dot = 0 THEN <<IntOf(t), 1>>
     ELSE Reduce(IntOf(SubSeq(t, 1, dot - 1) \o SubSeq(t, dot + 1, Len(t))),
                 Pow10(Len(t) - dot))

\* The string scanner on buf: the value once the key and its closing quote are there
SearchString(b) ==
  LET idx == Find(b, "Kq", 1)
  IN IF idx = 0 THEN NoneVal
     ELSE LET end == Find(b, "q", idx + 1)
          IN IF end = 0 THEN NoneVal ELSE Some(SubSeq(b, idx + 1, end - 1))

\* url.rsplit("/", 1)[-1]: what follows the last slash
AfterLastSlash(u) ==
  LET slashes == {i \in 1..Len(u) : u[i] \in {"S", "/"}}
  IN IF slashes = {} THEN u ELSE SubSeq(u, MaxOf(slashes) + 1, Len(u))

\* The station scanner on buf: [found |-> the station id or None, buf |-> buf after it]
SearchStation(b) ==
  LET idx == Find(b, "I", 1)
      sq  == IF idx = 0 THEN 0 ELSE Find(b, "q", idx + 1)
      eq  == IF sq = 0 THEN 0 ELSE Find(b, "q", sq + 1)
  IN IF eq = 0 THEN [found |-> NoneVal, buf |-> b]
     ELSE LET url == SubSeq(b, sq + 1, eq - 1)
          IN IF \E i \in 1..Len(url) : url[i] = "S"
             THEN [found |-> Some(AfterLastSlash(url)), buf |-> b]
             ELSE [found |-> NoneVal, buf |-> SubSeq(b, eq + 1, Len(b))]

\* The station scanner on a buffer of whole "id" members: the first member
\* decides; one that is no station is cut off the buffer with what precedes
\* it, and the buffer is searched again in the next pass of the loop
SearchStationList(b) ==
  LET ids == {i \in 1..Len(b) : b[i] \in {"N", "A", "B"}}
  IN IF ids = {} THEN [found |-> NoneVal, buf |-> b]
     ELSE LET idx == MinOf(ids)
          IN IF b[idx] = "A" THEN [found |-> Some(<<"a">>), buf |-> b]
             ELSE IF b[idx] = "B" THEN [found |-> Some(<<"b">>), buf |-> b]
             ELSE [found |-> NoneVal, buf |-> SubSeq(b, idx + 1, Len(b))]

\* A scanner that does not trim its buffer.
TrimNever(kind, b) == b

\* "if len(buf) > max_buf: buf = buf[-max_buf:]"
Trim(kind, b) == LastN(b, BufCap(kind))

SxInit ==
  /\ sx_kind \in Kinds
  /\ sx_stream \in Streams(sx_kind)
  /\ sx_pos = 0
  /\ sx_buf = <<>>
  /\ sx_pc = "reading"
  /\ sx_result = NoneVal
  /\ sx_peak = 0
  /\ sx_short = FALSE
  /\ sx_reads = 0
  /\ sx_searched = <<>>

SxIdle ==
  /\ sx_kind = "num_flat"
  /\ sx_stream = <<>>
  /\ sx_pos = 0
  /\ sx_buf = <<>>
  /\ sx_pc = "done"
  /\ sx_result = NoneVal
  /\ sx_peak = 0
  /\ sx_short = FALSE
  /\ sx_reads = 0
  /\ sx_searched = <<>>

\* stream.read(size): the sizes of the chunk it can return with pos tokens read,
\* 0 only at the end of the stream
ReadSizes(kind, stream, pos) ==
  IF pos = Len(stream) THEN {0}
  ELSE 1..(IF Len(stream) - pos < ChunkSize(kind) THEN Len(stream) - pos
           ELSE ChunkSize(kind))

\* A loop that reads on after an empty chunk.
LoopPassNoBreak(n, found, kept, searched) ==
  /\ sx_reads' = sx_reads + 1
  /\ sx_pos' = sx_pos + n
  /\ sx_short' = (sx_short \/ (n < ChunkSize(sx_kind) /\ sx_pos + n < Len(sx_stream)))
  /\ sx_peak' = IF Len(sx_buf) + n > sx_peak THEN Len(sx_buf) + n ELSE sx_peak
  /\ sx_buf' = kept
  /\ sx_searched' = searched
  /\ sx_result' = found
  /\ sx_pc' = IF found # NoneVal THEN "done" ELSE "reading"
  /\ UNCHANGED <<sx_kind, sx_stream>>

\* One pass of a scanner's while loop, the read returning n tokens: searched is
\* the trimmed buffer the search ran on, found what it gave, kept the buffer
\* the pass leaves.  An empty chunk ends the loop with None.
LoopPass(n, found, kept, searched) ==
  /\ sx_reads' = sx_reads + 1
  /\ sx_pos' = sx_pos + n
  /\ sx_short' = (sx_short \/ (n < ChunkSize(sx_kind) /\ sx_pos + n < Len(sx_stream)))
  /\ sx_peak' = IF Len(sx_buf) + n > sx_peak THEN Len(sx_buf) + n ELSE sx_peak
  /\ IF n = 0
     THEN /\ sx_pc' = "done"
          /\ sx_result' = NoneVal
          /\ UNCHANGED <<sx_buf, sx_searched>>
     ELSE /\ sx_buf' = kept
          /\ sx_searched' = searched
          /\ sx_result' = found
          /\ sx_pc' = IF found # NoneVal THEN "done" ELSE "reading"
  /\ UNCHANGED <<sx_kind, sx_stream>>

Grown(n) == sx_buf \o SubSeq(sx_stream, sx_pos + 1, sx_pos + n)

\* extract_first_number_stream_generic, one pass of its loop
extract_first_number_stream_generic(n) ==
  /\ UNCHANGED notSx
  /\ sx_kind \in {"num_flat", "num_nested"}
  /\ sx_pc = "reading"
  /\ LET buf == Trim(sx_kind, Grown(n))
         m   == Search(sx_kind, buf)
     IN LoopPass(n, IF m = NoneVal THEN NoneVal ELSE Some(ToFloat(m[1])), buf, buf)

\* extract_first_json_string_value_stream, one pass of its loop
extract_first_json_string_value_stream(n) ==
  /\ UNCHANGED notSx
  /\ sx_kind = "str"
  /\ sx_pc = "reading"
  /\ LET buf == Trim(sx_kind, Grown(n))
     IN LoopPass(n, SearchString(buf), buf, buf)

\* fetch_first_station_id, one pass of its loop
fetch_first_station_id(n) ==
  /\ UNCHANGED notSx
  /\ sx_kind \in {"station", "station_list"}
  /\ sx_pc = "reading"
  /\ LET buf == Trim(sx_kind, Grown(n))
         r   == IF sx_kind = "station" THEN SearchStation(buf) ELSE SearchStationList(buf)
     IN LoopPass(n, r.found, r.buf, buf)

NextStream ==
  \/ \E n \in ReadSizes(sx_kind, sx_stream, sx_pos) : extract_first_number_stream_generic(n)
  \/ \E n \in ReadSizes(sx_kind, sx_stream, sx_pos) : extract_first_json_string_value_stream(n)
  \/ \E n \in ReadSizes(sx_kind, sx_stream, sx_pos) : fetch_first_station_id(n)


(***************************************************************************)
(* Settings and the boot sequence                                          *)
(***************************************************************************)

\* WIFI_MAX_ATTEMPTS
WIFI_MAX_ATTEMPTS == 3

\* What a key of the settings dict holds: "absent" when the key is not in the
\* dict, "empty" for the empty string, and otherwise the kind of its text.
RequiredVals == {"absent", "empty", "set"}
TimezoneVals == {"absent", "Eastern", "manual", "Manual", "Mars"}

\* The keys of TIMEZONE_OFFSETS
TimezoneSelectors ==
  {"Eastern", "Central", "Mountain", "Pacific", "Alaska", "Hawaii", "Manual"}
OffsetVals   == {"absent", "empty", "number", "text"}
LatLonVals   == {"absent", "set"}

SettingsDicts ==
  [ssid : RequiredVals, password : RequiredVals, zip : RequiredVals,
   timezone : TimezoneVals, manual_offset : OffsetVals, latlon : LatLonVals]

\* What ap_configure writes: request.form, which carries no lat/lon.
Forms == {d \in SettingsDicts : d.latlon = "absent"}

NoDict == [ssid |-> "absent", password |-> "absent", zip |-> "absent",
           timezone |-> "absent", manual_offset |-> "absent", latlon |-> "absent"]

FileMissing    == [kind |-> "missing", d |-> NoDict]
FileCorrupt    == [kind |-> "corrupt", d |-> NoDict]
FileOf(d)      == [kind |-> "dict", d |-> d]
NotLoaded      == [kind |-> "none", d |-> NoDict]

SettingsFiles == {FileMissing, FileCorrupt} \cup {FileOf(d) : d \in SettingsDicts}

\* "key not in settings or not settings[key]"
MissingOrEmpty(v) == v \in {"absent", "empty"}

\* A validation with required_keys = ["ssid", "password"].
LoadSettingsNoZip(file) ==
  IF file.kind = "missing" THEN "missing"
  ELSE IF file.kind = "corrupt" THEN "corrupt"
  ELSE LET d == file.d IN
       IF MissingOrEmpty(d.ssid) \/ MissingOrEmpty(d.password) THEN "invalid"
       ELSE IF MissingOrEmpty(d.timezone) THEN "invalid"
       ELSE IF d.timezone = "manual" /\ d.manual_offset \in {"absent", "empty", "text"}
            THEN "invalid"
       ELSE "valid"

\* load_settings: the status it returns
LoadSettings(file) ==
  IF file.kind = "missing" THEN "missing"
  ELSE IF file.kind = "corrupt" THEN "corrupt"
  ELSE LET d == file.d IN
       IF MissingOrEmpty(d.ssid) \/ MissingOrEmpty(d.password) \/ MissingOrEmpty(d.zip)
       THEN "invalid"
       ELSE IF MissingOrEmpty(d.timezone) THEN "invalid"
       ELSE IF d.timezone = "manual" /\ d.manual_offset \in {"absent", "empty", "text"}
            THEN "invalid"
       ELSE "valid"

\* The state of the module's variables after a reset, the flash left as it is.
RamCleared ==
  /\ boot_pc' = "boot"
  /\ boot_settings' = NoneVal
  /\ boot_status' = "none"
  /\ boot_loaded' = NotLoaded
  /\ wifi_current_attempt' = 0
  /\ wifi_connected' = FALSE
  /\ boot_timer' = FALSE

BootInit ==
  /\ settings_file \in SettingsFiles
  /\ boot_pc = "boot"
  /\ boot_settings = NoneVal
  /\ boot_status = "none"
  /\ boot_loaded = NotLoaded
  /\ wifi_current_attempt = 0
  /\ wifi_connected = FALSE
  /\ boot_timer = FALSE
  /\ boot_reset_by = "power_on"
  /\ boot_switch = "unread"

BootIdle ==
  /\ settings_file = FileMissing
  /\ boot_pc = "off"
  /\ boot_settings = NoneVal
  /\ boot_status = "none"
  /\ boot_loaded = NotLoaded
  /\ wifi_current_attempt = 0
  /\ wifi_connected = FALSE
  /\ boot_timer = FALSE
  /\ boot_reset_by = "power_on"
  /\ boot_switch = "unread"

\* "t = 50": the passes of the countdown, one every 0.1 s
SetupCountdown == 50

\* What the reads of the setup switch found.  first: the read of the if.
\* "while setup_sw.value() == False and t > 0" reads the switch before every
\* pass and once more with t = 0; releasedAt: the number of the test that reads
\* the switch released and ends the loop early, 0 when every test reads it
\* pressed.  last: the read behind the loop.
SwitchReads(first, releasedAt, last) ==
  IF ~first THEN "released"
  ELSE IF ~last THEN "released"
  ELSE IF releasedAt = 0 THEN "held"
  ELSE "released_then_pressed"

\* The setup switch at power-up, lines 1544-1552.  When the read behind the loop
\* finds the switch pressed the settings file is removed and the device reset;
\* removing a file that is not there raises, and the handler of the module
\* resets as well.
boot_setup_switch(first, releasedAt, last) ==
  /\ UNCHANGED notBoot
  /\ boot_pc = "boot"
  /\ boot_switch' = SwitchReads(first, releasedAt, last)
  /\ IF first /\ last
     THEN /\ settings_file' = FileMissing
          /\ RamCleared
          /\ boot_reset_by' = IF settings_file = FileMissing THEN "exception"
                              ELSE "setup_switch"
     ELSE /\ boot_pc' = "load"
          /\ UNCHANGED <<settings_file, boot_settings, boot_status, boot_loaded,
                         wifi_current_attempt, wifi_connected, boot_timer,
                         boot_reset_by>>

\* "status, settings = load_settings()" and the branch on status
boot_load_settings ==
  /\ UNCHANGED notBoot
  /\ UNCHANGED boot_switch
  /\ boot_pc = "load"
  /\ LET status == LoadSettings(settings_file) IN
       /\ boot_status' = status
       /\ boot_loaded' = settings_file
       /\ boot_settings' = IF status = "valid" THEN Some(settings_file.d) ELSE NoneVal
       /\ settings_file' = IF status \in {"invalid", "corrupt"} THEN FileMissing
                           ELSE settings_file
       /\ boot_pc' = IF status = "valid" THEN "wifi" ELSE "provisioning"
       /\ wifi_current_attempt' = IF status = "valid" THEN 1 ELSE wifi_current_attempt
  /\ UNCHANGED <<wifi_connected, boot_timer, boot_reset_by>>

\* ap_configure with the timer armed before anything is written, and the
\* write lost.
ap_configure_unsaved(form) ==
  /\ UNCHANGED notBoot
  /\ UNCHANGED boot_switch
  /\ boot_pc = "provisioning"
  /\ boot_loaded' = NotLoaded
  /\ boot_timer' = TRUE
  /\ UNCHANGED <<settings_file, boot_pc, boot_settings, boot_status,
                 wifi_current_attempt, wifi_connected, boot_reset_by>>

\* setup_mode.ap_configure: POST /configure with the form.  json.dump writes the
\* form; request.form["ssid"] then raises for a form without ssid, before the
\* timer is initialised.
ap_configure(form) ==
  /\ UNCHANGED notBoot
  /\ UNCHANGED boot_switch
  /\ boot_pc = "provisioning"
  /\ settings_file' = FileOf(form)
  /\ boot_loaded' = NotLoaded
  /\ boot_timer' = (boot_timer \/ form.ssid # "absent")
  /\ UNCHANGED <<boot_pc, boot_settings, boot_status, wifi_current_attempt,
                 wifi_connected, boot_reset_by>>

\* delayed_reset, the timer callback of ap_configure and of continue_handler
ap_delayed_reset ==
  /\ UNCHANGED notBoot
  /\ UNCHANGED boot_switch
  /\ boot_timer
  /\ RamCleared
  /\ boot_reset_by' = "delayed_reset"
  /\ UNCHANGED settings_file

\* server.run() returns: the module goes on below the branch on status
server_run_returns ==
  /\ UNCHANGED notBoot
  /\ UNCHANGED boot_switch
  /\ boot_pc = "provisioning"
  /\ boot_pc' = "wifi"
  /\ wifi_current_attempt' = 1
  /\ UNCHANGED <<settings_file, boot_settings, boot_status, boot_loaded,
                 wifi_connected, boot_timer, boot_reset_by>>

\* One pass of "while (wifi_current_attempt < WIFI_MAX_ATTEMPTS)"; settings['ssid']
\* raises when settings is None, and the handler of the module resets.
boot_wifi_attempt(ok) ==
  /\ UNCHANGED notBoot
  /\ UNCHANGED boot_switch
  /\ boot_pc = "wifi"
  /\ IF boot_settings = NoneVal
     THEN RamCleared /\ boot_reset_by' = "exception" /\ UNCHANGED settings_file
     ELSE /\ wifi_connected' = ok
          /\ wifi_current_attempt' = IF ok THEN wifi_current_attempt
                                     ELSE wifi_current_attempt + 1
          /\ boot_pc' = IF ok \/ ~(wifi_current_attempt + 1 < WIFI_MAX_ATTEMPTS)
                        THEN "wifi_done" ELSE "wifi"
          /\ UNCHANGED <<settings_file, boot_settings, boot_status, boot_loaded,
                         boot_timer, boot_reset_by>>

\* The else branch without os.remove(SETTINGS_FILE): the reset alone.
boot_after_wifi_keeps_file(geo) ==
  /\ UNCHANGED notBoot
  /\ UNCHANGED boot_switch
  /\ boot_pc = "wifi_done"
  /\ IF wifi_connected
     THEN LET d    == boot_settings[1]
              seta == IF d.latlon = "absent" /\ geo THEN [d EXCEPT !.latlon = "set"] ELSE d
          IN /\ boot_settings' = Some(seta)
             /\ settings_file' = IF seta # d THEN FileOf(seta) ELSE settings_file
             /\ boot_pc' = "app"
             /\ UNCHANGED <<boot_status, boot_loaded, wifi_current_attempt,
                            wifi_connected, boot_timer, boot_reset_by>>
     ELSE UNCHANGED settings_file /\ RamCleared /\ boot_reset_by' = "wifi_failed"

\* "if is_connected_to_wifi(): ... application_mode(settings)  else: ... machine_reset()";
\* geo: get_lat_lon found the place
boot_after_wifi(geo) ==
  /\ UNCHANGED notBoot
  /\ UNCHANGED boot_switch
  /\ boot_pc = "wifi_done"
  /\ IF wifi_connected
     THEN LET d    == boot_settings[1]
              seta == IF d.latlon = "absent" /\ geo THEN [d EXCEPT !.latlon = "set"] ELSE d
          IN /\ boot_settings' = Some(seta)
             /\ settings_file' = IF seta # d THEN FileOf(seta) ELSE settings_file
             /\ boot_pc' = "app"
             /\ UNCHANGED <<boot_status, boot_loaded, wifi_current_attempt,
                            wifi_connected, boot_timer, boot_reset_by>>
     ELSE settings_file' = FileMissing /\ RamCleared /\ boot_reset_by' = "wifi_failed"

\* application_mode, the head of its loop with start_update_requested set:
\* start_update_mode() is called; it registers its routes and enters server.run()
app_start_update_mode ==
  /\ UNCHANGED notBoot
  /\ UNCHANGED boot_switch
  /\ boot_pc = "app"
  /\ boot_pc' = "updating"
  /\ UNCHANGED <<settings_file, boot_settings, boot_status, boot_loaded,
                 wifi_current_attempt, wifi_connected, boot_timer, boot_reset_by>>

\* start_update_mode.continue_handler: POST /continue sets continue_requested and
\* initialises the timer
update_continue_handler ==
  /\ UNCHANGED notBoot
  /\ UNCHANGED boot_switch
  /\ boot_pc = "updating"
  /\ ~boot_timer
  /\ boot_timer' = TRUE
  /\ UNCHANGED <<settings_file, boot_pc, boot_settings, boot_status, boot_loaded,
                 wifi_current_attempt, wifi_connected, boot_reset_by>>

\* server.run() of start_update_mode returns and continue_requested is set:
\* start_update_mode returns, application_mode returns behind it, and the
\* module has no statement left
start_update_mode_returns ==
  /\ UNCHANGED notBoot
  /\ UNCHANGED boot_switch
  /\ boot_pc = "updating"
  /\ boot_timer
  /\ boot_pc' = "ended"
  /\ UNCHANGED <<settings_file, boot_settings, boot_status, boot_loaded,
                 wifi_current_attempt, wifi_connected, boot_timer, boot_reset_by>>

NextBoot ==
  \/ app_start_update_mode
  \/ update_continue_handler
  \/ start_update_mode_returns
  \/ \E first, last \in BOOLEAN, releasedAt \in 0..(SetupCountdown + 1) :
       boot_setup_switch(first, releasedAt, last)
  \/ boot_load_settings
  \/ \E form \in Forms : ap_configure(form)
  \/ ap_delayed_reset
  \/ server_run_returns
  \/ \E ok \in BOOLEAN : boot_wifi_attempt(ok)
  \/ \E geo \in BOOLEAN : boot_after_wifi(geo)

(***************************************************************************)
(* application_mode and get_weather_data                                   *)
(***************************************************************************)

\* WEATH_INTERVAL, in seconds
WEATH_INTERVAL == 300

\* What get_nws_metadata returns: None, or a dict whose station_id is there and
\* whose two URLs may be None.
Urls == {NoneVal, Some("url")}
MetadataOutcomes ==
  {NoneVal} \cup
  {Some([forecast_url |-> f, hourly_url |-> h, station_id |-> Some("KXYZ")]) :
     f \in Urls, h \in Urls}

\* What get_nws_metadata meets: a request that raises, or the properties of the
\* point data (forecast, forecastHourly; grid: gridId, gridX and gridY are all
\* there) and what fetch_first_station_id returns.
Points ==
  [raises : BOOLEAN, forecast : Urls, forecastHourly : Urls, grid : BOOLEAN,
   station : {NoneVal, Some("KXYZ")}]

\* get_nws_metadata(lat, lon)
get_nws_metadata(point) ==
  LET forecast_hourly_url ==
        IF point.forecastHourly = NoneVal /\ point.grid
        THEN Some("url") ELSE point.forecastHourly
  IN IF point.raises THEN NoneVal
     ELSE IF point.station = NoneVal THEN NoneVal
     ELSE Some([forecast_url |-> point.forecast,
                hourly_url   |-> forecast_hourly_url,
                station_id   |-> point.station])

\* How one request and its extraction end: urequests.get raises ("raise"), the
\* response is there and reading its stream raises ("read_raise"), the
\* extractor returns None, or it returns a value.  Numbers are in tenths.
Outcomes(vals, blank) ==
  {[tag |-> "raise", v |-> blank], [tag |-> "read_raise", v |-> blank],
   [tag |-> "none", v |-> blank]}
    \cup {[tag |-> "val", v |-> x] : x \in vals}

\* The request or the extraction raised.
Raised(outcome) == outcome.tag \in {"raise", "read_raise"}

ObsTemps     == {215}       \* 21.5 C
ObsHums      == {547}       \* 54.7 %
HourlyTemps  == {685}       \* 68.5 F
HourlyHums   == {600}       \* 60.0 %

\* The forecast document.  It is a JSON object given by its members in order;
\* a member has a key and a value that is a string (quoted) or a literal such
\* as null.  An empty text with quoted TRUE is the empty string.
Member(key, quoted, text) == [key |-> key, quoted |-> quoted, text |-> text]
ShortForecastValues == {"", "Sunny", "Rain"}
Members ==
  {Member("shortForecast", TRUE, t) : t \in ShortForecastValues}
    \cup {Member("temperatureTrend", FALSE, "null"),
          Member("temperatureTrend", TRUE, ""),
          Member("temperatureTrend", TRUE, "falling")}

\* The most members a forecast document has
MaxMembers == 3
Documents == UNION {[1..n -> Members] : n \in 0..MaxMembers}

\* The text of the document, r.text, as a sequence of tokens: "q" is a double
\* quote, a key or a word of a value is one token, the punctuation is itself.
MemberText(m) ==
  <<"q", m.key, "q", ":">> \o
    (IF ~m.quoted THEN <<m.text>>
     ELSE IF m.text = "" THEN <<"q", "q">> ELSE <<"q", m.text, "q">>)

RECURSIVE MembersText(_)
MembersText(ms) ==
  IF ms = <<>> THEN <<>>
  ELSE IF Len(ms) = 1 THEN MemberText(ms[1])
  ELSE MemberText(ms[1]) \o <<",">> \o MembersText(Tail(ms))

RawText(doc) == <<"{">> \o MembersText(doc) \o <<"}">>

\* How the forecast request ends: it raises, or r.text is a document.
ForecastOutcomes(docs) ==
  {[tag |-> "raise", v |-> <<>>]} \cup {[tag |-> "doc", v |-> d] : d \in docs}

EnvDocuments ==
  {<<>>, <<Member("shortForecast", TRUE, "")>>, <<Member("shortForecast", TRUE, "Sunny")>>}

\* refresh: what get_nws_metadata would return if get_weather_data ran it again
Envs ==
  [obs_temp : Outcomes(ObsTemps, 0), obs_hum : Outcomes(ObsHums, 0),
   fb_temp : Outcomes(HourlyTemps, 0), fb_hum : Outcomes(HourlyHums, 0),
   forecast : ForecastOutcomes(EnvDocuments),
   refresh : MetadataOutcomes]

\* round(n / d), d > 0: to the nearest integer, a half to the even one
Round(n, d) ==
  LET q == n \div d
      r == n % d
  IN IF 2 * r < d THEN q
     ELSE IF 2 * r > d THEN q + 1
     ELSE IF q % 2 = 0 THEN q ELSE q + 1

\* int(x) of a value x >= 0 given in tenths
IntTenths(x) == x \div 10

\* The try block of the observation raises: at the first request, or at the
\* second one, which is made when a temperature was found.
ObsRaises(env) ==
  \/ Raised(env.obs_temp)
  \/ env.obs_temp.tag = "val" /\ Raised(env.obs_hum)

\* temp_c after the try block of the observation, in tenths
PrimaryTempC(env) ==
  IF ~ObsRaises(env) /\ env.obs_temp.tag = "val" THEN Some(env.obs_temp.v) ELSE NoneVal

\* round(temp_c * 9 / 5 + 32), temp_c in tenths
ToFahrenheit(c) == Round(c * 18 + 3200, 100)

\* temp_f after the try block of the observation
PrimaryTempF(env) ==
  IF PrimaryTempC(env) # NoneVal THEN Some(ToFahrenheit(PrimaryTempC(env)[1])) ELSE NoneVal

\* humidity after the try block of the observation
PrimaryHumidity(env) ==
  IF ~ObsRaises(env) /\ env.obs_temp.tag = "val" /\ env.obs_hum.tag = "val"
  THEN Some(IntTenths(env.obs_hum.v)) ELSE NoneVal

\* "if temp_c is None or humidity is None"
NeedsFallback(env) == PrimaryTempC(env) = NoneVal \/ PrimaryHumidity(env) = NoneVal

\* A fallback that reports the sentinel whatever the hourly forecast holds.
FallbackTempFIgnored(env) ==
  IF Raised(env.fb_temp) THEN Some(0)
  ELSE IF PrimaryTempC(env) # NoneVal THEN PrimaryTempF(env)
  ELSE Some(0)

\* temp_f after the fallback of the temperature
FallbackTempF(env) ==
  IF Raised(env.fb_temp) THEN Some(0)
  ELSE IF PrimaryTempC(env) # NoneVal THEN PrimaryTempF(env)
  ELSE IF env.fb_temp.tag = "val" THEN Some(Round(env.fb_temp.v, 10))
  ELSE Some(0)

\* A fallback that reports -1 when its request raises.
FallbackHumidityMinusOne(env) ==
  IF Raised(env.fb_hum) THEN Some(-1)
  ELSE IF PrimaryHumidity(env) # NoneVal THEN PrimaryHumidity(env)
  ELSE IF env.fb_hum.tag = "val" THEN Some(IntTenths(env.fb_hum.v))
  ELSE Some(0)

\* humidity after the fallback of the humidity
FallbackHumidity(env) ==
  IF Raised(env.fb_hum) THEN Some(0)
  ELSE IF PrimaryHumidity(env) # NoneVal THEN PrimaryHumidity(env)
  ELSE IF env.fb_hum.tag = "val" THEN Some(IntTenths(env.fb_hum.v))
  ELSE Some(0)

\* "Final safety check"
FinalCheck(x) == IF x = NoneVal THEN Some(0) ELSE x

\* raw.find(p, from), counted from 1: the first index >= from where the
\* sequence p occurs, 0 for none
FindFrom(raw, p, from) ==
  LET hits == {i \in from..Len(raw) :
                 /\ i + Len(p) - 1 <= Len(raw)
                 /\ \A k \in 1..Len(p) : raw[i + k - 1] = p[k]}
  IN IF hits = {} THEN 0 ELSE MinOf(hits)

\* raw.rfind(p): the last index where p occurs, 0 for none
FindLast(raw, p) ==
  LET hits == {i \in 1..Len(raw) :
                 /\ i + Len(p) - 1 <= Len(raw)
                 /\ \A k \in 1..Len(p) : raw[i + k - 1] = p[k]}
  IN IF hits = {} THEN 0 ELSE MaxOf(hits)

\* The extraction that starts from the last occurrence of the key.
extract_last_json_string_value(raw_json, key) ==
  LET search_key  == <<"q", key, "q">>
      idx         == FindLast(raw_json, search_key)
      colon_idx   == IF idx = 0 THEN 0
                     ELSE FindFrom(raw_json, <<":">>, idx + Len(search_key))
      start_quote == IF colon_idx = 0 THEN 0
                     ELSE FindFrom(raw_json, <<"q">>, colon_idx + 1)
      end_quote   == IF start_quote = 0 THEN 0
                     ELSE FindFrom(raw_json, <<"q">>, start_quote + 1)
  IN IF end_quote = 0 THEN NoneVal
     ELSE Some(SubSeq(raw_json, start_quote + 1, end_quote - 1))

\* extract_first_json_string_value(raw_json, key): None, or the tokens between
\* the first two quotes behind the first colon behind the first '"key"'
extract_first_json_string_value(raw_json, key) ==
  LET search_key  == <<"q", key, "q">>
      idx         == FindFrom(raw_json, search_key, 1)
      colon_idx   == IF idx = 0 THEN 0
                     ELSE FindFrom(raw_json, <<":">>, idx + Len(search_key))
      start_quote == IF colon_idx = 0 THEN 0
                     ELSE FindFrom(raw_json, <<"q">>, colon_idx + 1)
      end_quote   == IF start_quote = 0 THEN 0
                     ELSE FindFrom(raw_json, <<"q">>, start_quote + 1)
  IN IF end_quote = 0 THEN NoneVal
     ELSE Some(SubSeq(raw_json, start_quote + 1, end_quote - 1))

\* The text "N/A"
NotAvailable == <<"N/A">>

\* forecast after the try block of the forecast: "if not forecast" holds for
\* None and for the empty string; the except branch gives "N/A" as well
Forecast(env) ==
  IF env.forecast.tag = "raise" THEN Some(NotAvailable)
  ELSE LET forecast == extract_first_json_string_value(RawText(env.forecast.v),
                                                       "shortForecast")
       IN IF forecast = NoneVal \/ forecast = Some(<<>>) THEN Some(NotAvailable)
          ELSE forecast

\* get_weather_data from "Fetch latest observations" on: the metadata is complete
WeatherFields(env) ==
  LET temp_f   == IF NeedsFallback(env) THEN FallbackTempF(env) ELSE PrimaryTempF(env)
      humidity == IF NeedsFallback(env) THEN FallbackHumidity(env)
                  ELSE PrimaryHumidity(env)
  IN <<FinalCheck(temp_f), FinalCheck(humidity), Forecast(env)>>

\* "return None, None, None"
NoSample == <<NoneVal, NoneVal, NoneVal>>

\* "not station_id or not forecast_url or not hourly_url"
Incomplete(m) ==
  m.station_id = NoneVal \/ m.forecast_url = NoneVal \/ m.hourly_url = NoneVal

\* The parameters of get_nws_metadata(lat, lon), and the arguments of the call
\* get_nws_metadata(lat, lon, headers) in get_weather_data
NwsMetadataParams == 2
RefreshArgs == 3

\* A call raises TypeError when it passes another number of positional
\* arguments than the function has parameters.
CallRaises(params, args) == args # params

\* A refresh that passes the two arguments of get_nws_metadata.
RefreshedMetadataTwoArgs(env) ==
  IF CallRaises(NwsMetadataParams, NwsMetadataParams) THEN [raised |-> TRUE, md |-> NoneVal]
  ELSE [raised |-> FALSE, md |-> env.refresh]

\* "metadata = get_nws_metadata(lat, lon, headers)"
RefreshedMetadata(env) ==
  IF CallRaises(NwsMetadataParams, RefreshArgs) THEN [raised |-> TRUE, md |-> NoneVal]
  ELSE [raised |-> FALSE, md |-> env.refresh]

\* get_weather_data(lat, lon, metadata, headers).  metadata.get raises when
\* metadata is None, and so may the refresh of an incomplete dict; both end in
\* the outer except, which returns None, None, None.
get_weather_data(md, env) ==
  IF md = NoneVal THEN NoSample
  ELSE IF Incomplete(md[1])
       THEN IF RefreshedMetadata(env).raised THEN NoSample
            ELSE IF RefreshedMetadata(env).md = NoneVal THEN NoSample
            ELSE WeatherFields(env)
  ELSE WeatherFields(env)

\* The requests of get_weather_data in the order it makes them, each by how
\* it ends: the observation for the temperature; the observation again for
\* the humidity "if temp_c_val is not None"; the hourly forecast twice when a
\* field is missing; the forecast.
Requests(env) ==
  <<env.obs_temp.tag>>
    \o (IF env.obs_temp.tag = "val" THEN <<env.obs_hum.tag>> ELSE <<>>)
    \o (IF NeedsFallback(env) THEN <<env.fb_temp.tag, env.fb_hum.tag>> ELSE <<>>)
    \o <<env.forecast.tag>>

\* urequests.get(station_url, ...) calls: one, and a second one when the first
\* gave a temperature
ObservationRequests(env) == IF env.obs_temp.tag = "val" THEN 2 ELSE 1

\* The responses open right after request k has returned its response: r.close()
\* follows the extraction, so a response whose extraction raised stays open
OpenAfterRequest(reqs, k) ==
  (IF reqs[k] = "raise" THEN 0 ELSE 1)
    + Cardinality({j \in 1..(k - 1) : reqs[j] = "read_raise"})

\* The most responses open at a time
MaxOpen(env) ==
  MaxOf({OpenAfterRequest(Requests(env), k) : k \in 1..Len(Requests(env))})

NoRequests == [observation |-> 0, max_open |-> 0]

\* What get_weather_data did on the network: nothing when it returned before
\* "Fetch latest observations"
Http(md, env) ==
  IF md = NoneVal THEN NoRequests
  ELSE IF Incomplete(md[1])
          /\ (RefreshedMetadata(env).raised \/ RefreshedMetadata(env).md = NoneVal)
       THEN NoRequests
  ELSE [observation |-> ObservationRequests(env), max_open |-> MaxOpen(env)]

\* The truth value of a tuple: it is true unless it is empty.
Truthy(tuple) == Len(tuple) # 0

\* display_weather raises at int(humidity) when humidity is None.
DisplayRaises(sample) == sample[2] = NoneVal

RunInit ==
  /\ run_pc = "start"
  /\ run_latlon \in {"absent", "null", "set"}
  /\ lat_lon_complete = FALSE
  /\ metadata = NoneVal
  /\ run_sample = NoSample
  /\ run_screen = "logo"
  /\ run_elapsed = 0
  /\ run_fetch = "none"
  /\ run_blocked = 0

RunIdle ==
  /\ run_pc = "off"
  /\ run_latlon = "absent"
  /\ lat_lon_complete = FALSE
  /\ metadata = NoneVal
  /\ run_sample = NoSample
  /\ run_screen = "logo"
  /\ run_elapsed = 0
  /\ run_fetch = "none"
  /\ run_blocked = 0

\* "if new_data: ... display_weather(...)  else: ... unavailable"; an exception
\* leaves application_mode and the handler of the module resets the device.
ShowFetched(new_data) ==
  /\ run_fetch' = IF new_data = NoSample THEN "failed" ELSE "sample"
  /\ IF Truthy(new_data)
     THEN /\ run_sample' = new_data
          /\ IF DisplayRaises(new_data)
             THEN run_pc' = "reset" /\ run_screen' = "blank"
             ELSE run_pc' = "loop" /\ run_screen' = "weather"
     ELSE /\ run_sample' = NoSample
          /\ run_pc' = "loop"
          /\ run_screen' = "weather_unavailable"

\* application_mode up to the initial weather fetch.  settings["lat"] raises when
\* the key is absent; with a null lat the lookup names zip_code, which
\* application_mode does not have.
app_start(md) ==
  /\ UNCHANGED notRun
  /\ run_pc = "start"
  /\ IF run_latlon = "set"
     THEN /\ lat_lon_complete' = TRUE
          /\ metadata' = md
          /\ run_pc' = "fetch"
     ELSE /\ run_pc' = "reset"
          /\ UNCHANGED <<lat_lon_complete, metadata>>
  /\ UNCHANGED <<run_latlon, run_sample, run_screen, run_elapsed, run_fetch,
                 run_blocked>>

\* "Initial weather fetch"
app_initial_fetch(env) ==
  /\ UNCHANGED notRun
  /\ run_pc = "fetch"
  /\ lat_lon_complete
  /\ ShowFetched(get_weather_data(metadata, env))
  /\ run_elapsed' = 0
  /\ UNCHANGED <<run_latlon, lat_lon_complete, metadata, run_blocked>>

\* The longest a call of get_weather_data is followed while it does not
\* return, in seconds.
MaxStall == 3

\* One pass of the loop in which the weather is not due; dt: the seconds gone
\* since the pass before.  The pass recomputes the clock.
app_loop(dt) ==
  /\ UNCHANGED notRun
  /\ run_pc = "loop"
  /\ ~start_update_requested
  /\ run_elapsed + dt < WEATH_INTERVAL
  /\ run_elapsed' = run_elapsed + dt
  /\ UNCHANGED <<run_pc, run_latlon, lat_lon_complete, metadata, run_sample,
                 run_screen, run_fetch, run_blocked>>

\* One pass of the loop in which the weather is due, up to the call of
\* get_weather_data: the loop waits in the call.
app_loop_refresh(dt) ==
  /\ UNCHANGED notRun
  /\ run_pc = "loop"
  /\ ~start_update_requested
  /\ run_elapsed + dt >= WEATH_INTERVAL
  /\ lat_lon_complete
  /\ run_pc' = "fetching"
  /\ run_blocked' = 0
  /\ UNCHANGED <<run_latlon, lat_lon_complete, metadata, run_sample, run_screen,
                 run_elapsed, run_fetch>>

\* A second goes by while a request of get_weather_data has no answer.
get_weather_data_stalls ==
  /\ UNCHANGED notRun
  /\ run_pc = "fetching"
  /\ run_blocked < MaxStall
  /\ run_blocked' = run_blocked + 1
  /\ UNCHANGED <<run_pc, run_latlon, lat_lon_complete, metadata, run_sample,
                 run_screen, run_elapsed, run_fetch>>

\* get_weather_data returns and the pass goes on to its end: the sample is
\* shown, last_weather_update is the time the pass began, the clock is recomputed.
app_loop_fetched(env) ==
  /\ UNCHANGED notRun
  /\ run_pc = "fetching"
  /\ ShowFetched(get_weather_data(metadata, env))
  /\ run_elapsed' = run_blocked
  /\ run_blocked' = 0
  /\ UNCHANGED <<run_latlon, lat_lon_complete, metadata>>

NextRun ==
  \/ \E md \in MetadataOutcomes : app_start(md)
  \/ \E env \in Envs : app_initial_fetch(env)
  \/ \E dt \in {0, 1} : app_loop(dt)
  \/ \E dt \in {0, 1} : app_loop_refresh(dt)
  \/ get_weather_data_stalls
  \/ \E env \in Envs : app_loop_fetched(env)

(***************************************************************************)
(* get_nws_metadata and get_weather_data on every input                    *)
(***************************************************************************)

\* The highest temperature of an observation, in tenths of a degree Celsius.
MaxCelsius == 1000

\* An observation that holds temperature c and a humidity, so that no fallback runs
Observed(c) ==
  [obs_temp |-> [tag |-> "val", v |-> c], obs_hum |-> [tag |-> "val", v |-> 547],
   fb_temp |-> [tag |-> "none", v |-> 0], fb_hum |-> [tag |-> "none", v |-> 0],
   forecast |-> [tag |-> "doc", v |-> <<Member("shortForecast", TRUE, "Sunny")>>],
   refresh |-> NoneVal]

\* An observation with both fields and a forecast request that returns doc
Forecasted(doc) == [Observed(215) EXCEPT !.forecast = [tag |-> "doc", v |-> doc]]

\* The texts of the temperature value in an observation: a sign or none, one or
\* two digits, one decimal or none
ReadingTexts ==
  {sign \o whole \o frac : sign \in {<<>>, <<"-">>},
                           whole \in {<<"0">>, <<"5">>, <<"2", "1">>},
                           frac \in {<<>>, <<".", "5">>}}

\* The observation as the scanner gets it, in the tokens of the stream
\* scanners:  "temperature": { "value": <text> }
ObservationStream(text) == <<"K", "{", "V">> \o text \o <<"}">>

\* A fraction num/den with den 1 or 10, in tenths
Tenths(x) == (x[1] * 10) \div x[2]

\* temp_c_val: what pattern_temp finds in the observation, float(group 1)
PrimaryMatch(text) ==
  LET m == SearchNested(ObservationStream(text))
  IN IF m = NoneVal THEN [tag |-> "none", v |-> 0]
     ELSE [tag |-> "val", v |-> Tenths(ToFloat(m[1]))]

\* What the hourly forecast gives for the temperature in these cases
ReadingFallbacks == {[tag |-> "none", v |-> 0], [tag |-> "val", v |-> 230]}

\* An observation whose temperature value reads text, with a humidity; the
\* hourly request of the temperature ends as fb
Reading(text, fb) ==
  [Observed(0) EXCEPT !.obs_temp = PrimaryMatch(text), !.fb_temp = fb]

WxEnvs == Envs \cup {Observed(c) : c \in 0..MaxCelsius}
               \cup {Forecasted(doc) : doc \in Documents}
               \cup {Reading(text, fb) : text \in ReadingTexts, fb \in ReadingFallbacks}

WxInit ==
  /\ wx_pc = "resolve"
  /\ wx_point \in Points
  /\ wx_env \in WxEnvs
  /\ wx_metadata = NoneVal
  /\ wx_result = NoSample
  /\ wx_http = NoRequests

WxIdle ==
  /\ wx_pc = "off"
  /\ wx_point = [raises |-> TRUE, forecast |-> NoneVal, forecastHourly |-> NoneVal,
                 grid |-> FALSE, station |-> NoneVal]
  /\ wx_env = Observed(0)
  /\ wx_metadata = NoneVal
  /\ wx_result = NoSample
  /\ wx_http = NoRequests

\* metadata = get_nws_metadata(lat, lon)
call_get_nws_metadata ==
  /\ UNCHANGED notWx
  /\ wx_pc = "resolve"
  /\ wx_metadata' = get_nws_metadata(wx_point)
  /\ wx_pc' = "fetch"
  /\ UNCHANGED <<wx_point, wx_env, wx_result, wx_http>>

\* new_data = get_weather_data(lat, lon, metadata, headers)
call_get_weather_data ==
  /\ UNCHANGED notWx
  /\ wx_pc = "fetch"
  /\ wx_result' = get_weather_data(wx_metadata, wx_env)
  /\ wx_http' = Http(wx_metadata, wx_env)
  /\ wx_pc' = "done"
  /\ UNCHANGED <<wx_point, wx_env, wx_metadata>>

NextWeather ==
  \/ call_get_nws_metadata
  \/ call_get_weather_data

(***************************************************************************)
(* simplify_forecast.  A string is a sequence of characters.               *)
(***************************************************************************)

UpperCase == <<"A", "B", "C", "D", "E", "F", "G", "H", "I", "J", "K", "L", "M", "N", "O", "P", "Q", "R", "S", "T", "U", "V", "W", "X", "Y", "Z">>
LowerCase == <<"a", "b", "c", "d", "e", "f", "g", "h", "i", "j", "k", "l", "m", "n", "o", "p", "q", "r", "s", "t", "u", "v", "w", "x", "y", "z">>

\* c.lower()
LowerChar(c) ==
  LET hits == {i \in 1..26 : UpperCase[i] = c}
  IN IF hits = {} THEN c ELSE LowerCase[CHOOSE i \in hits : TRUE]

\* c.upper()
UpperChar(c) ==
  LET hits == {i \in 1..26 : LowerCase[i] = c}
  IN IF hits = {} THEN c ELSE UpperCase[CHOOSE i \in hits : TRUE]

\* s.lower()
RECURSIVE Lower(_)
Lower(s) == IF s = <<>> THEN <<>> ELSE <<LowerChar(Head(s))>> \o Lower(Tail(s))

\* p occurs in s at index i
OccursAt(s, p, i) ==
  /\ i + Len(p) - 1 <= Len(s)
  /\ \A k \in 1..Len(p) : s[i + k - 1] = p[k]

\* s.find(p), counted from 1: the index of the first occurrence of p, 0 for none
FindStr(s, p) ==
  LET hits == {i \in 1..Len(s) : OccursAt(s, p, i)}
  IN IF hits = {} THEN 0 ELSE MinOf(hits)

\* s.strip()
RECURSIVE Strip(_)
Strip(s) ==
  IF s = <<>> THEN s
  ELSE IF Head(s) = " " THEN Strip(Tail(s))
  ELSE IF s[Len(s)] = " " THEN Strip(SubSeq(s, 1, Len(s) - 1))
  ELSE s

\* s[:n]
FirstN(s, n) == IF Len(s) > n THEN SubSeq(s, 1, n) ELSE s

\* MODIFIERS
MODIFIERS == <<
  <<"S", "l", "i", "g", "h", "t", " ", "C", "h", "a", "n", "c", "e">>,
  <<"C", "h", "a", "n", "c", "e">>,
  <<"M", "o", "s", "t", "l", "y">>,
  <<"P", "a", "r", "t", "l", "y">>,
  <<"L", "i", "k", "e", "l", "y">>,
  <<"S", "c", "a", "t", "t", "e", "r", "e", "d">>,
  <<"I", "s", "o", "l", "a", "t", "e", "d">> >>

\* CONDITIONS; the literals "Winter Weather" and "Freezing Rain" stand side by
\* side with no comma between them, which makes them one string
CONDITIONS == <<
  <<"T", "o", "r", "n", "a", "d", "o">>,
  <<"H", "a", "i", "l", "s", "t", "o", "r", "m">>,
  <<"H", "a", "i", "l", "s", "t", "o", "r", "m", "s">>,
  <<"B", "l", "i", "z", "z", "a", "r", "d">>,
  <<"W", "i", "n", "t", "e", "r", " ", "S", "t", "o", "r", "m">>,
  <<"W", "i", "n", "t", "e", "r", " ", "W", "e", "a", "t", "h", "e", "r", "F", "r", "e", "e", "z", "i", "n", "g", " ", "R", "a", "i", "n">>,
  <<"F", "r", "e", "e", "z", "i", "n", "g", " ", "D", "r", "i", "z", "z", "l", "e">>,
  <<"H", "a", "i", "l">>,
  <<"S", "l", "e", "e", "t">>,
  <<"I", "c", "e">>,
  <<"F", "r", "o", "s", "t">>,
  <<"F", "l", "a", "s", "h", " ", "F", "l", "o", "o", "d">>,
  <<"F", "l", "o", "o", "d">>,
  <<"D", "u", "s", "t", " ", "S", "t", "o", "r", "m">>,
  <<"S", "m", "o", "k", "e">>,
  <<"V", "o", "l", "c", "a", "n", "i", "c", " ", "A", "s", "h">>,
  <<"H", "u", "r", "r", "i", "c", "a", "n", "e">>,
  <<"T", "r", "o", "p", "i", "c", "a", "l", " ", "s", "t", "o", "r", "m">>,
  <<"T", "h", "u", "n", "d", "e", "r", "s", "t", "o", "r", "m">>,
  <<"T", "h", "u", "n", "d", "e", "r", "s", "t", "o", "r", "m", "s">>,
  <<"T", "-", "s", "t", "o", "r", "m", "s">>,
  <<"T", "s", "t", "o", "r", "m", "s">>,
  <<"S", "t", "o", "r", "m">>,
  <<"S", "h", "o", "w", "e", "r", "s">>,
  <<"R", "a", "i", "n">>,
  <<"F", "o", "g">>,
  <<"S", "n", "o", "w">>,
  <<"C", "l", "e", "a", "r">>,
  <<"S", "u", "n", "n", "y">>,
  <<"C", "l", "o", "u", "d", "y">>,
  <<"W", "i", "n", "d", "y">>,
  <<"G", "u", "s", "t", "y">>,
  <<"W", "i", "n", "d">>,
  <<"D", "r", "i", "z", "z", "l", "e">>,
  <<"H", "a", "z", "e">> >>

\* [" then ", ";", ","]
Separators == <<
  <<" ", "t", "h", "e", "n", " ">>,
  <<";">>,
  <<",">> >>

\* The rewrites of a modifier: <<lower case of the modifier, what replaces it>>
ModifierRewrites == <<
  <<<<"i", "s", "o", "l", "a", "t", "e", "d">>, <<"I", "s", "o", "l">>>>,
  <<<<"s", "l", "i", "g", "h", "t", " ", "c", "h", "a", "n", "c", "e">>, <<"C", "h", "a", "n", "c", "e">>>>,
  <<<<"s", "c", "a", "t", "t", "e", "r", "e", "d">>, <<"S", "c", "a", "t", "t", "r">>>> >>

\* The rewrites of a condition when there is a modifier
ConditionRewrites == <<
  <<<<"h", "a", "i", "l", "s", "t", "o", "r", "m">>, <<"H", "a", "i", "l", "s", "t", "r", "m">>>>,
  <<<<"h", "a", "i", "l", "s", "t", "o", "r", "m", "s">>, <<"H", "a", "i", "l", "s", "t", "r", "m">>>>,
  <<<<"b", "l", "i", "z", "z", "a", "r", "d">>, <<"B", "l", "i", "z", "z", "r", "d">>>>,
  <<<<"w", "i", "n", "t", "e", "r", " ", "s", "t", "o", "r", "m">>, <<"W", "i", "n", "t", " ", "S", "t">>>>,
  <<<<"w", "i", "n", "t", "e", "r", " ", "w", "e", "a", "t", "h", "e", "r">>, <<"W", "i", "n", "t", " ", "W", "t", "h">>>>,
  <<<<"f", "r", "e", "e", "z", "i", "n", "g", " ", "r", "a", "i", "n">>, <<"F", "r", " ", "R", "a", "i", "n">>>>,
  <<<<"f", "r", "e", "e", "z", "i", "n", "g", " ", "d", "r", "i", "z", "z", "l", "e">>, <<"F", "r", " ", "D", "r", "z", "l">>>>,
  <<<<"f", "l", "a", "s", "h", " ", "f", "l", "o", "o", "d">>, <<"F", "l", " ", "F", "l", "o", "o", "d">>>>,
  <<<<"d", "u", "s", "t", " ", "s", "t", "o", "r", "m">>, <<"D", "u", "s", "t", " ", "S", "t">>>>,
  <<<<"v", "o", "l", "c", "a", "n", "i", "c", " ", "a", "s", "h">>, <<"V", "o", "l", "c", " ", "A", "s", "h">>>>,
  <<<<"h", "u", "r", "r", "i", "c", "a", "n", "e">>, <<"H", "u", "r", "r", "c", "a", "n">>>>,
  <<<<"t", "r", "o", "p", "i", "c", "a", "l", " ", "s", "t", "o", "r", "m">>, <<"T", "r", "o", "p", " ", "S", "t">>>>,
  <<<<"t", "h", "u", "n", "d", "e", "r", "s", "t", "o", "r", "m">>, <<"T", "s", "t", "o", "r", "m", "s">>>>,
  <<<<"t", "h", "u", "n", "d", "e", "r", "s", "t", "o", "r", "m", "s">>, <<"T", "s", "t", "o", "r", "m", "s">>>>,
  <<<<"t", "-", "s", "t", "o", "r", "m", "s">>, <<"T", "s", "t", "o", "r", "m", "s">>>> >>

\* "Frzing Drizzle", for "freezing drizzle" when there is no modifier
FrzingDrizzle == <<"F", "r", "z", "i", "n", "g", " ", "D", "r", "i", "z", "z", "l", "e">>
FreezingDrizzleLower == <<"f", "r", "e", "e", "z", "i", "n", "g", " ", "d", "r", "i", "z", "z", "l", "e">>

\* "No Forecast"
NoForecast == <<"N", "o", " ", "F", "o", "r", "e", "c", "a", "s", "t">>

\* The rewrite table applied to a phrase: what replaces it, or the phrase itself
Rewritten(table, phrase) ==
  LET hits == {i \in 1..Len(table) : table[i][1] = Lower(phrase)}
  IN IF hits = {} THEN phrase ELSE table[MinOf(hits)][2]

\* The first of the separators that occurs in the lower-case text, 0 for none
FirstSeparator(lowered) ==
  LET hits == {i \in 1..Len(Separators) : FindStr(lowered, Separators[i]) # 0}
  IN IF hits = {} THEN 0 ELSE MinOf(hits)

\* A classifier that keeps the whole text.
RetainedWhole(forecast) == Lower(Strip(forecast))

\* forecast.lower().split(sep, 1)[0] for the first separator there is, then
\* strip().lower()
Retained(forecast) ==
  LET lowered == Lower(forecast)
      sep == FirstSeparator(lowered)
      cut == IF sep = 0 THEN forecast
             ELSE SubSeq(lowered, 1, FindStr(lowered, Separators[sep]) - 1)
  IN Lower(Strip(cut))

\* mod.lower() for mod in MODIFIERS, cond.lower() for cond in CONDITIONS
ModifiersLower == [i \in 1..Len(MODIFIERS) |-> Lower(MODIFIERS[i])]
ConditionsLower == [i \in 1..Len(CONDITIONS) |-> Lower(CONDITIONS[i])]

\* The first of the pairs (pos, index) in found, sorted by pos: the sort is
\* stable, so among equal positions the order of the list stays
Earliest(found, pos) ==
  CHOOSE i \in found : \A j \in found : pos[i] < pos[j] \/ (pos[i] = pos[j] /\ i <= j)

\* A choice of the first modifier of the list that the text holds.
FoundModifierByListOrder(text) ==
  LET found == {i \in 1..Len(MODIFIERS) : FindStr(text, ModifiersLower[i]) # 0}
  IN IF found = {} THEN <<>> ELSE MODIFIERS[MinOf(found)]

\* found_modifier: the modifier found at the lowest position, "" for none
FoundModifier(text) ==
  LET pos   == [i \in 1..Len(MODIFIERS) |-> FindStr(text, ModifiersLower[i])]
      found == {i \in 1..Len(MODIFIERS) : pos[i] # 0}
  IN IF found = {} THEN <<>> ELSE MODIFIERS[Earliest(found, pos)]

\* A choice of the condition found at the lowest position.
FoundConditionByPosition(text) ==
  LET pos   == [i \in 1..Len(CONDITIONS) |-> FindStr(text, ConditionsLower[i])]
      found == {i \in 1..Len(CONDITIONS) : pos[i] # 0}
  IN IF found = {} THEN <<>> ELSE CONDITIONS[Earliest(found, pos)]

\* found_condition: the condition found that comes first in CONDITIONS, "" for none
FoundCondition(text) ==
  LET pos   == [i \in 1..Len(CONDITIONS) |-> FindStr(text, ConditionsLower[i])]
      found == {i \in 1..Len(CONDITIONS) : pos[i] # 0}
  IN IF found = {} THEN <<>> ELSE CONDITIONS[MinOf(found)]

\* The modifier and the condition after the special rules
Shortened(modifier, condition) ==
  IF modifier = <<>>
  THEN <<modifier,
         IF Lower(condition) = FreezingDrizzleLower THEN FrzingDrizzle ELSE condition>>
  ELSE <<Rewritten(ModifierRewrites, modifier), Rewritten(ConditionRewrites, condition)>>

\* The values simplify_forecast is called with: a string, None, or a number
StrValue(s) == [type |-> "str", s |-> s]
NoneValue   == [type |-> "none", s |-> <<>>]
IntValue    == [type |-> "int", s |-> <<>>]

\* A simplify_forecast that returns the phrase whole.
simplify_forecast_untruncated(forecast) ==
  IF forecast.type # "str" \/ forecast.s = <<>> THEN NoForecast
  ELSE LET text  == Retained(forecast.s)
           short == Shortened(FoundModifier(text), FoundCondition(text))
           phrase == Strip(short[1] \o <<" ">> \o short[2])
       IN IF short[1] = <<>> /\ short[2] = <<>>
          THEN text
          ELSE phrase

\* simplify_forecast(forecast)
simplify_forecast(forecast) ==
  IF forecast.type # "str" \/ forecast.s = <<>> THEN NoForecast
  ELSE LET text  == Retained(forecast.s)
           short == Shortened(FoundModifier(text), FoundCondition(text))
           phrase == Strip(short[1] \o <<" ">> \o short[2])
       IN IF short[1] = <<>> /\ short[2] = <<>>
          THEN LET s == FirstN(text, 14)
               IN IF s = <<>> THEN s ELSE <<UpperChar(s[1])>> \o Tail(s)
          ELSE FirstN(phrase, 14)

\* The most words of a forecast text.
MaxWords == 3

\* The words forecast texts are made of
Vocabulary == {
  <<"C", "h", "a", "n", "c", "e">>,
  <<"T", "h", "u", "n", "d", "e", "r", "s", "t", "o", "r", "m", "s">>,
  <<"R", "a", "i", "n">>,
  <<"t", "h", "e", "n">>,
  <<"P", "a", "r", "t", "l", "y">>,
  <<"H", "a", "i", "l">>,
  <<",">>,
  <<";">>,
  <<"S", "l", "i", "g", "h", "t">>,
  <<"E", "x", "t", "r", "a", "o", "r", "d", "i", "n", "a", "r", "i", "l", "y">> }

\* words joined by single spaces
RECURSIVE Join(_)
Join(words) ==
  IF words = <<>> THEN <<>>
  ELSE IF Len(words) = 1 THEN words[1]
  ELSE words[1] \o <<" ">> \o Join(Tail(words))

ForecastTextsOfWords == {Join(ws) : ws \in UNION {[1..n -> Vocabulary] : n \in 0..MaxWords}}

\* The texts "<modifier> <condition>" of the two lists
ModifierConditionTexts ==
  {MODIFIERS[i] \o <<" ">> \o CONDITIONS[j] :
     i \in 1..Len(MODIFIERS), j \in 1..Len(CONDITIONS)}

ForecastInputs ==
  {NoneValue, IntValue}
    \cup {StrValue(s) : s \in ForecastTextsOfWords \cup ModifierConditionTexts}

SfInit ==
  /\ sf_pc = "call"
  /\ sf_forecast \in ForecastInputs
  /\ sf_line = <<>>
  /\ sf_day = FALSE
  /\ sf_icon = "none"

SfIdle ==
  /\ sf_pc = "off"
  /\ sf_forecast = NoneValue
  /\ sf_line = <<>>
  /\ sf_day = FALSE
  /\ sf_icon = "none"

\* The branches of get_icon_filename in their order: the texts one of which
\* must be in f, the file by day and the file by night
IconRules == <<
  <<{<<"p", "a", "r", "t", "l", "y", " ", "s", "u", "n", "n", "y">>, <<"p", "a", "r", "t", "l", "y", " ", "c", "l", "e", "a", "r">>, <<"p", " ", "s", "u", "n", "n", "y">>, <<"p", " ", "c", "l", "e", "a", "r">>},
    "icons/part_cloudy_day_rgb565.raw", "icons/part_cloudy_night_rgb565.raw">>,
  <<{<<"m", "o", "s", "t", "l", "y", " ", "s", "u", "n", "n", "y">>, <<"m", " ", "s", "u", "n", "n", "y">>, <<"m", "o", "s", "t", "l", "y", " ", "c", "l", "e", "a", "r">>, <<"m", " ", "c", "l", "e", "a", "r">>},
    "icons/clear_day_rgb565.raw", "icons/clear_night_rgb565.raw">>,
  <<{<<"p", "a", "r", "t", "l", "y", " ", "c", "l", "o", "u", "d", "y">>, <<"p", " ", "c", "l", "o", "u", "d", "y">>},
    "icons/part_cloudy_day_rgb565.raw", "icons/part_cloudy_night_rgb565.raw">>,
  <<{<<"m", "o", "s", "t", "l", "y", " ", "c", "l", "o", "u", "d", "y">>, <<"m", " ", "c", "l", "o", "u", "d", "y">>},
    "icons/cloudy_rgb565.raw", "icons/cloudy_rgb565.raw">>,
  <<{<<"s", "u", "n">>, <<"c", "l", "e", "a", "r">>},
    "icons/clear_day_rgb565.raw", "icons/clear_night_rgb565.raw">>,
  <<{<<"t", "s", "t", "o", "r", "m", "s">>, <<"t", "h", "u", "n", "d", "e", "r", "s", "t", "o", "r", "m">>, <<"t", "h", "u", "n", "d", "e", "r", "s", "t", "o", "r", "m", "s">>, <<"t", "-", "s", "t", "o", "r", "m">>},
    "icons/tstorm_rgb565.raw", "icons/tstorm_rgb565.raw">>,
  <<{<<"c", "l", "o", "u", "d">>, <<"o", "v", "e", "r", "c", "a", "s", "t">>},
    "icons/cloudy_rgb565.raw", "icons/cloudy_rgb565.raw">>,
  <<{<<"r", "a", "i", "n">>, <<"s", "h", "o", "w", "e", "r", "s">>, <<"d", "r", "i", "z", "z", "l", "e">>},
    "icons/rain_rgb565.raw", "icons/rain_rgb565.raw">>,
  <<{<<"f", "o", "g">>, <<"h", "a", "z", "e">>},
    "icons/fog_rgb565.raw", "icons/fog_rgb565.raw">>,
  <<{<<"s", "n", "o", "w">>, <<"f", "l", "u", "r", "r", "i", "e", "s">>, <<"s", "l", "e", "e", "t">>, <<"h", "a", "i", "l">>},
    "icons/snow_rgb565.raw", "icons/snow_rgb565.raw">>,
  <<{<<"w", "i", "n", "d">>},
    "icons/windy_rgb565.raw", "icons/windy_rgb565.raw">> >>

\* get_icon_filename(simplified_now, day): the file of the first branch that
\* holds, and the clear icon when none does
get_icon_filename(simplified_now, day) ==
  LET f    == Lower(simplified_now)
      hits == {i \in 1..Len(IconRules) : \E t \in IconRules[i][1] : FindStr(f, t) # 0}
  IN IF hits = {}
     THEN (IF day THEN "icons/clear_day_rgb565.raw" ELSE "icons/clear_night_rgb565.raw")
     ELSE IF day THEN IconRules[MinOf(hits)][2] ELSE IconRules[MinOf(hits)][3]

\* A display_weather that hands the forecast as it came to draw_weather_icon.
display_weather_icon_of_forecast(day) ==
  /\ UNCHANGED notSf
  /\ sf_pc = "call"
  /\ sf_line' = simplify_forecast(sf_forecast)
  /\ sf_day' = day
  /\ sf_icon' = get_icon_filename(sf_forecast.s, day)
  /\ sf_pc' = "done"
  /\ UNCHANGED sf_forecast

\* display_weather(temp, humidity, forecast): line = simplify_forecast(forecast),
\* draw_weather_icon(display, line, ...) with day = is_daytime(), and the line
\* is written below the icon
display_weather(day) ==
  /\ UNCHANGED notSf
  /\ sf_pc = "call"
  /\ sf_line' = simplify_forecast(sf_forecast)
  /\ sf_day' = day
  /\ sf_icon' = get_icon_filename(simplify_forecast(sf_forecast), day)
  /\ sf_pc' = "done"
  /\ UNCHANGED sf_forecast

NextForecast == \E day \in BOOLEAN : display_weather(day)

(***************************************************************************)
(* Specifications                                                          *)
(***************************************************************************)

InitUpdate ==
  /\ UpdInit
  /\ BtnIdle
  /\ SxIdle
  /\ BootIdle
  /\ RunIdle
  /\ WxIdle
  /\ SfIdle

SpecUpdate == InitUpdate /\ [][NextUpdate]_vars

InitButton ==
  /\ BtnInit
  /\ UpdIdle
  /\ SxIdle
  /\ BootIdle
  /\ RunIdle
  /\ WxIdle
  /\ SfIdle

SpecButton == InitButton /\ [][NextButton]_vars

\* The loop of application_mode is the main thread: a statement that can run
\* does run, interrupts return to it, and the requests of a pass come back.
SpecButtonLive ==
  /\ InitButton
  /\ [][NextButton]_vars
  /\ WF_vars(loop_test)
  /\ WF_vars(loop_clear)
  /\ WF_vars(loop_start_update_mode)
  /\ WF_vars(loop_pass)

InitStream ==
  /\ SxInit
  /\ UpdIdle
  /\ BtnIdle
  /\ BootIdle
  /\ RunIdle
  /\ WxIdle
  /\ SfIdle

SpecStream == InitStream /\ [][NextStream]_vars

InitBoot ==
  /\ BootInit
  /\ UpdIdle
  /\ BtnIdle
  /\ SxIdle
  /\ RunIdle
  /\ WxIdle
  /\ SfIdle

SpecBoot == InitBoot /\ [][NextBoot]_vars

InitRun ==
  /\ RunInit
  /\ UpdIdle
  /\ BtnIdle
  /\ SxIdle
  /\ BootIdle
  /\ WxIdle
  /\ SfIdle

SpecRun == InitRun /\ [][NextRun]_vars

InitWeather ==
  /\ WxInit
  /\ UpdIdle
  /\ BtnIdle
  /\ SxIdle
  /\ BootIdle
  /\ RunIdle
  /\ SfIdle

SpecWeather == InitWeather /\ [][NextWeather]_vars

InitForecast ==
  /\ SfInit
  /\ UpdIdle
  /\ BtnIdle
  /\ SxIdle
  /\ BootIdle
  /\ RunIdle
  /\ WxIdle

SpecForecast == InitForecast /\ [][NextForecast]_vars

(***************************************************************************)
(* Claims about the update server                                          *)
(***************************************************************************)

\* Some entry of manifest m fails its check against the files: the file cannot
\* be opened or its digest is not the listed one.
SomeEntryFails(m, files) ==
  \E i \in DOMAIN m :
     files[m[i][1]] = NoFile \/ Sha256(files[m[i][1]]) # m[i][2]

\* The step is a finalize request (every other handler answers under its own name).
FinalizeStep == upd_resp'.handler = "finalize" /\ ~upd_reset

LogOps(log) == {log[i].op : i \in DOMAIN log}

IsChange(e) == e.op \in {"remove", "rename", "rename_failed"}

\* C3: in the operations of a finalize no verification follows a remove or a
\* rename, and when a remove or rename was made every manifest entry had been
\* verified before it.
C3_VerifyBeforeApply ==
  /\ \A i, j \in DOMAIN fin_log :
        (i < j /\ IsChange(fin_log[i])) => fin_log[j].op # "verify"
  /\ (\E i \in DOMAIN fin_log : IsChange(fin_log[i])) =>
        \A k \in DOMAIN expected_checksums :
           \E i \in DOMAIN fin_log :
              /\ fin_log[i] = Op("verify", expected_checksums[k][1])
              /\ \A j \in DOMAIN fin_log : IsChange(fin_log[j]) => i < j

\* C3 witness: a successful finalize over two entries that renamed both.
C3_Witness ==
  /\ upd_resp = Resp("finalize", 200)
  /\ Len(expected_checksums) = 2
  /\ Cardinality({i \in DOMAIN fin_log : fin_log[i].op = "rename"}) = 2

C5_ResetOnlyAfterApplied == upd_reset => upd_applied

(***************************************************************************)
(* Claims about the setup switch                                           *)
(***************************************************************************)

\* C6: when setup_sw_handler has just handled a release that follows a press,
\* and the button was really held for less than the threshold, the flag
\* start_update_requested is as the release found it; when it was held for the
\* threshold or longer the flag is True, set once since the press; in both
\* cases press_time is cleared.  A release that follows no press leaves the
\* flag alone, so one hold never sets the flag twice.
C6_LongPressSetsFlagOnce ==
  /\ btn_sets <= 1
  /\ btn_evt = "release" =>
       IF btn_before.press = NoneVal
       THEN start_update_requested = btn_before.flag /\ press_time = NoneVal
       ELSE IF btn_held >= LongPress
            THEN /\ start_update_requested = TRUE
                 /\ long_press_triggered = TRUE
                 /\ btn_sets = 1
                 /\ press_time = NoneVal
            ELSE /\ start_update_requested = btn_before.flag
                 /\ btn_sets = 0
                 /\ press_time = NoneVal

\* C6 witness: a release exactly at the threshold, timed across the wrap of
\* the ticks counter, has set the flag that was clear before.
C6_Witness ==
  /\ btn_evt = "release"
  /\ btn_before.press # NoneVal
  /\ btn_before.press[1] > ticks
  /\ btn_held = LongPress
  /\ ~btn_before.flag
  /\ start_update_requested

(***************************************************************************)
(* Claims about the stream scanners                                        *)
(***************************************************************************)

IsNumKind == sx_kind \in {"num_flat", "num_nested"}

\* The text of the target number in the whole stream s, had it been searched in
\* one piece; <<>> if the stream has no target.
WholeNumber(kind, s) == Search(kind, s)

\* C7 as stated: when the whole stream fits in the buffer cap and holds the
\* target, and every read returned a full chunk, the numeric scanner returns the
\* value the unchunked stream holds.
C7_ChunkInvariance ==
  (/\ IsNumKind
   /\ sx_pc = "done"
   /\ ~sx_short
   /\ Len(sx_stream) <= NumBuf
   /\ WholeNumber(sx_kind, sx_stream) # NoneVal)
  => sx_result = Some(ToFloat(WholeNumber(sx_kind, sx_stream)[1]))

IsSuffixOf(b, s) == Len(b) <= Len(s) /\ b = SubSeq(s, Len(s) - Len(b) + 1, Len(s))

ReadSoFar == SubSeq(sx_stream, 1, sx_pos)

\* C8: the buffer a scanner searches holds at most the cap (the larger cap for
\* the numeric scanner and the station scanner, the smaller for the string
\* scanner) and is a suffix of what was read so far, as is the buffer kept
\* between passes; and the buffer never exceeds the cap by more than one chunk.
C8_BufferBounded ==
  /\ Len(sx_searched) <= (IF sx_kind = "str" THEN StrBuf ELSE NumBuf)
  /\ Len(sx_buf) <= Len(sx_searched)
  /\ IsSuffixOf(sx_searched, ReadSoFar)
  /\ IsSuffixOf(sx_buf, ReadSoFar)
  /\ sx_peak <= (IF sx_kind = "str" THEN StrBuf + StrChunk ELSE NumBuf + NumChunk)

\* C8 witness: the station scanner has read more than the cap, has dropped the
\* oldest bytes, and has searched a buffer that is exactly full.
C8_Witness ==
  /\ sx_kind = "station"
  /\ sx_peak > NumBuf
  /\ Len(sx_searched) = NumBuf
  /\ sx_pos > NumBuf

\* The stream s holds a target of the numeric scanner's pattern.
HasNumber(kind, s) ==
  IF kind = "num_flat"
  THEN \E i \in 1..(Len(s) - 1) : s[i] = "K" /\ s[i + 1] = "7"
  ELSE \E i \in 1..Len(s), j \in 1..(Len(s) - 1) :
         /\ s[i] = "K" /\ i + 1 < j /\ s[i + 1] = "{"
         /\ s[j] = "V" /\ s[j + 1] = "7"
         /\ \A k \in (i + 2)..(j - 1) : s[k] # "}"

\* The stream s holds the key of the string scanner with a closed value.
HasString(s) == \E i, j \in 1..Len(s) : i < j /\ s[i] = "Kq" /\ s[j] = "q"

TargetAbsent ==
  IF sx_kind = "str" THEN ~HasString(sx_stream) ELSE ~HasNumber(sx_kind, sx_stream)

\* C9: on a stream without the target the numeric scanner and the string
\* scanner keep reading while there is something to read, make at most one
\* read per byte and one more, and then return None with the stream exhausted.
C9_NotFoundTerminates ==
  (sx_kind \in {"num_flat", "num_nested", "str"} /\ TargetAbsent) =>
     /\ sx_reads <= Len(sx_stream) + 1
     /\ sx_pc = "reading" => (sx_reads <= sx_pos /\ sx_pos <= Len(sx_stream))
     /\ sx_pc = "done" => (sx_result = NoneVal /\ sx_pos = Len(sx_stream))

\* C9 witness: the string scanner has finished a stream longer than its cap
\* that holds the key but never closes the value.
C9_Witness ==
  /\ sx_kind = "str"
  /\ sx_pc = "done"
  /\ Len(sx_stream) > StrBuf
  /\ sx_stream[1] = "Kq"
  /\ sx_result = NoneVal


(***************************************************************************)
(* Claims about the settings and the boot sequence                         *)
(***************************************************************************)

RequiredKeys == {"ssid", "password", "zip"}

\* The settings load_settings read lack a required key, or hold it empty.
LacksRequired(file) ==
  /\ file.kind = "dict"
  /\ \E k \in RequiredKeys : file.d[k] \in {"absent", "empty"}

\* C10: settings that lack ssid, password or zip, or hold one of them empty, are
\* classified "invalid" by load_settings; and a boot in which load_settings did
\* not report "valid" does not reach application_mode: the settings handed to
\* application_mode hold all three.
C10_InvalidNeverRuns ==
  /\ LacksRequired(boot_loaded) => boot_status = "invalid"
  /\ boot_status \in {"missing", "invalid", "corrupt"} => boot_pc # "app"
  /\ boot_pc = "app" =>
       /\ boot_status = "valid"
       /\ boot_settings # NoneVal
       /\ \A k \in RequiredKeys : boot_settings[1][k] = "set"

\* Settings with ssid and password but no zip were loaded, and the boot sequence
\* went on to provisioning after removing the file.
C10_Witness ==
  /\ boot_loaded.kind = "dict"
  /\ boot_loaded.d.ssid = "set"
  /\ boot_loaded.d.password = "set"
  /\ boot_loaded.d.zip = "absent"
  /\ boot_loaded.d.timezone = "Eastern"
  /\ boot_status = "invalid"
  /\ boot_pc = "provisioning"
  /\ settings_file = FileMissing


(***************************************************************************)
(* Claims about application_mode                                           *)
(***************************************************************************)

\* C1: when get_weather_data could produce no sample at all, application_mode
\* shows "weather unavailable" and its loop goes on (the fetch is tried again
\* at the next interval); no exception leaves it and the device is not reset.
C1_TotalFailureShowsUnavailable ==
  run_fetch = "failed" =>
    /\ run_screen = "weather_unavailable"
    /\ run_pc = "loop"


\* C11: load_settings reports "valid" for no settings whose timezone is missing
\* or is not a known selector (a key of TIMEZONE_OFFSETS, or "manual" as
\* load_settings spells it), and for none that select the manual timezone
\* with a manual_offset that is missing or not a number.
C11_TimezoneValidated ==
  boot_status = "valid" =>
    /\ boot_loaded.d.timezone \in TimezoneSelectors \cup {"manual"}
    /\ boot_loaded.d.timezone \in {"Manual", "manual"} =>
         boot_loaded.d.manual_offset = "number"


\* C16: in application_mode the clock on the display goes on being recomputed
\* while a call of get_weather_data has not returned: the loop is never held
\* in the call for more than a second without recomputing the clock.
C16_ClockNotBlocked ==
  run_pc = "fetching" => run_blocked <= 1

(***************************************************************************)
(* Claims about get_nws_metadata and get_weather_data                      *)
(***************************************************************************)

\* get_weather_data has returned, and the metadata it was given was complete.
FetchedComplete ==
  /\ wx_pc = "done"
  /\ wx_metadata # NoneVal
  /\ wx_metadata[1].forecast_url # NoneVal
  /\ wx_metadata[1].hourly_url # NoneVal
  /\ wx_metadata[1].station_id # NoneVal

\* The observation gave no temperature: none was found, or a request raised.
NoPrimaryTemp ==
  \/ wx_env.obs_temp.tag # "val"
  \/ Raised(wx_env.obs_hum)

\* The observation gave no humidity.
NoPrimaryHumidity ==
  \/ wx_env.obs_temp.tag # "val"
  \/ wx_env.obs_hum.tag # "val"

\* C12: when the observation gives no temperature and the hourly forecast holds
\* one, get_weather_data returns the hourly temperature rounded to an integer
\* (within half a degree of it), not the sentinel 0.
C12_FallbackTemperatureUsed ==
  (FetchedComplete /\ NoPrimaryTemp /\ wx_env.fb_temp.tag = "val") =>
    /\ wx_result[1] # NoneVal
    /\ 10 * wx_result[1][1] - wx_env.fb_temp.v <= 5
    /\ wx_env.fb_temp.v - 10 * wx_result[1][1] <= 5

\* No temperature in the observation, 68.5 F in the hourly forecast: 68 returned.
C12_Witness ==
  /\ FetchedComplete
  /\ wx_env.obs_temp.tag = "none"
  /\ wx_env.fb_temp = [tag |-> "val", v |-> 685]
  /\ wx_result[1] = Some(68)

\* C13: when get_weather_data returns a sample (the metadata is complete), its
\* temperature and humidity are never None, and a field that neither the
\* observation nor the hourly forecast gave, a raising request included, is 0.
C13_SentinelForMissingField ==
  FetchedComplete =>
    /\ wx_result[1] # NoneVal
    /\ wx_result[2] # NoneVal
    /\ (NoPrimaryTemp /\ wx_env.fb_temp.tag # "val") => wx_result[1] = Some(0)
    /\ (NoPrimaryHumidity /\ wx_env.fb_hum.tag # "val") => wx_result[2] = Some(0)

\* The observation raised and so did the hourly request of the humidity, while
\* the hourly temperature was there: humidity 0 next to a temperature.
C13_Witness ==
  /\ FetchedComplete
  /\ wx_env.obs_temp.tag = "raise"
  /\ wx_env.fb_temp.tag = "val"
  /\ wx_env.fb_hum.tag = "raise"
  /\ wx_result[1] = Some(68)
  /\ wx_result[2] = Some(0)

\* The metadata is a dict with a field missing.
GivenIncomplete ==
  /\ wx_pc = "done"
  /\ wx_metadata # NoneVal
  /\ \/ wx_metadata[1].forecast_url = NoneVal
     \/ wx_metadata[1].hourly_url = NoneVal
     \/ wx_metadata[1].station_id = NoneVal

\* C14: given metadata with a field missing, get_weather_data runs the resolver
\* again; when the resolver succeeds a sample is returned, and no sample only
\* when the resolver fails.
C14_RefreshThenSample ==
  (GivenIncomplete /\ wx_env.refresh # NoneVal /\ ~Incomplete(wx_env.refresh[1])) =>
    wx_result # NoSample

\* C15: get_nws_metadata returns None or a dict in which forecast_url,
\* hourly_url and station_id are all there.
C15_MetadataAllOrNothing ==
  (wx_pc # "resolve" /\ wx_metadata # NoneVal) =>
    /\ wx_metadata[1].forecast_url # NoneVal
    /\ wx_metadata[1].hourly_url # NoneVal
    /\ wx_metadata[1].station_id # NoneVal

\* n / d rounded to the nearest integer, a half away from zero (d > 0)
RoundHalfAway(n, d) ==
  IF n >= 0 THEN (2 * n + d) \div (2 * d) ELSE -((2 * (-n) + d) \div (2 * d))

\* C20: the Fahrenheit temperature get_weather_data returns for a Celsius
\* reading C is C * 9 / 5 + 32 rounded half away from zero.
C20_FahrenheitHalfAway ==
  (FetchedComplete /\ wx_env.obs_temp.tag = "val" /\ wx_env.obs_hum.tag = "val") =>
    wx_result[1] = Some(RoundHalfAway(wx_env.obs_temp.v * 18 + 3200, 100))


(***************************************************************************)
(* Claims about simplify_forecast                                          *)
(***************************************************************************)

\* C17: for every input (a string, the empty string, a string with no modifier
\* and no condition in it, a value that is no string) simplify_forecast
\* returns a string of at most 14 characters.
C17_LabelAtMost14 ==
  sf_pc = "done" => Len(sf_line) <= 14

\* A word of 15 characters that holds no modifier and no condition came back
\* cut to 14.
C17_Witness ==
  /\ sf_pc = "done"
  /\ sf_forecast = StrValue(<<"E", "x", "t", "r", "a", "o", "r", "d", "i", "n", "a", "r", "i", "l", "y">>)
  /\ sf_line = <<"E", "x", "t", "r", "a", "o", "r", "d", "i", "n", "a", "r", "i", "l">>

\* p occurs in s
Contains(s, p) == FindStr(s, p) # 0

\* s ends with p
EndsWith(s, p) == Len(s) >= Len(p) /\ SubSeq(s, Len(s) - Len(p) + 1, Len(s)) = p

\* The part of the text simplify_forecast keeps holds both "thunderstorm" and "rain".
ThunderstormAndRain ==
  /\ sf_pc = "done"
  /\ sf_forecast.type = "str"
  /\ Contains(Retained(sf_forecast.s), <<"t", "h", "u", "n", "d", "e", "r", "s", "t", "o", "r", "m">>)
  /\ Contains(Retained(sf_forecast.s), <<"r", "a", "i", "n">>)

\* A condition that stands before "Thunderstorm" in CONDITIONS occurs in the
\* part of the text that is kept.
SevererThanThunderstorm ==
  \E i \in 1..Len(CONDITIONS) :
    /\ \A j \in 1..i : CONDITIONS[j] # <<"T", "h", "u", "n", "d", "e", "r", "s", "t", "o", "r", "m">>
    /\ Contains(Retained(sf_forecast.s), ConditionsLower[i])

\* C18 as stated: for any text whose kept part holds both "Thunderstorm" and
\* "Rain", simplify_forecast selects the condition "Tstorms".
C18_TstormsSelected ==
  ThunderstormAndRain => EndsWith(sf_line, <<"T", "s", "t", "o", "r", "m", "s">>)

\* C18: for any text whose kept part holds both "Thunderstorm" and "Rain" and
\* no condition that stands before "Thunderstorm" in CONDITIONS, the condition
\* of the result is the thunderstorm and never "Rain": "Tstorms" after the
\* modifier when one is found, "Thunderstorm" alone when none is.
C18_ThunderstormOverRain ==
  (ThunderstormAndRain /\ ~SevererThanThunderstorm) =>
    /\ ~EndsWith(sf_line, <<"R", "a", "i", "n">>)
    /\ IF \E i \in 1..Len(MODIFIERS) :
            Contains(Retained(sf_forecast.s), ModifiersLower[i])
       THEN EndsWith(sf_line, <<" ">> \o <<"T", "s", "t", "o", "r", "m", "s">>)
       ELSE sf_line = <<"T", "h", "u", "n", "d", "e", "r", "s", "t", "o", "r", "m">>

\* "Chance Rain Thunderstorms": Rain stands first, the result is "Chance Tstorms".
C18_Witness ==
  /\ sf_pc = "done"
  /\ sf_forecast = StrValue(<<"C", "h", "a", "n", "c", "e", " ", "R", "a", "i", "n", " ", "T", "h", "u", "n", "d", "e", "r", "s", "t", "o", "r", "m", "s">>)
  /\ sf_line = <<"C", "h", "a", "n", "c", "e", " ", "T", "s", "t", "o", "r", "m", "s">>

\* The text up to the end of its first " then "
ThroughThen(s) == SubSeq(s, 1, FindStr(Lower(s), Separators[1]) + Len(Separators[1]) - 1)

\* C19: what follows the first " then " of the text has no part in the result:
\* the result is that of the text cut behind its first " then ", and
\* "Rain then Partly" gives "Rain".
C19_AfterThenIgnored ==
  (sf_pc = "done" /\ sf_forecast.type = "str"
     /\ Contains(Lower(sf_forecast.s), Separators[1])) =>
    /\ sf_line = simplify_forecast(StrValue(ThroughThen(sf_forecast.s)))
    /\ sf_forecast.s = <<"R", "a", "i", "n", " ", "t", "h", "e", "n", " ", "P", "a", "r", "t", "l", "y">> => sf_line = <<"R", "a", "i", "n">>

\* "Rain then Partly" was classified as "Rain".
C19_Witness ==
  /\ sf_pc = "done"
  /\ sf_forecast = StrValue(<<"R", "a", "i", "n", " ", "t", "h", "e", "n", " ", "P", "a", "r", "t", "l", "y">>)
  /\ sf_line = <<"R", "a", "i", "n">>

(***************************************************************************)
(* Wi-Fi failure at boot                                                   *)
(***************************************************************************)

\* C21: when the connection loop of a boot with valid settings ends without
\* a connection, the step that follows removes the settings file and resets
\* (it does not call application_mode), and the boot after that reset, on
\* reading the settings, gets no settings and goes to setup mode.
C21_WifiFailureInvalidates ==
  [][ /\ (boot_pc = "wifi_done" /\ ~wifi_connected)
         => (settings_file' = FileMissing /\ boot_pc' = "boot")
      /\ (boot_reset_by = "wifi_failed" /\ boot_pc = "load")
         => (boot_pc' = "provisioning" /\ boot_settings' = NoneVal) ]_vars

\* The boot after a Wi-Fi failure has reached setup mode with no settings file.
C21_Witness ==
  /\ boot_reset_by = "wifi_failed"
  /\ boot_pc = "provisioning"
  /\ boot_status = "missing"
  /\ settings_file = FileMissing

(***************************************************************************)
(* Setup mode and update mode end in a reset                               *)
(***************************************************************************)

\* The program is in setup mode or in update mode, or has fallen out of one of
\* them: below server.run() of the boot sequence with no settings loaded, or at
\* the end of the module.
OutOfRunning ==
  \/ boot_pc \in {"provisioning", "updating", "ended"}
  \/ boot_pc = "wifi" /\ boot_settings = NoneVal

\* C22: from setup mode and from update mode the program reaches nothing but
\* these modes and a reset (application_mode is not entered or resumed from
\* them), and whenever the reset timer of POST /configure is pending the
\* settings file holds a submitted form.
C22_ResetIsTheOnlyWayOut ==
  [][ /\ OutOfRunning => (OutOfRunning' \/ boot_pc' = "boot")
      /\ (boot_pc' = "provisioning" /\ boot_timer')
           => (settings_file'.kind = "dict" /\ settings_file'.d \in Forms) ]_vars

\* A form was posted in setup mode: it is in the file and the timer is pending.
C22_Witness ==
  /\ boot_pc = "provisioning"
  /\ boot_timer
  /\ settings_file.kind = "dict"
  /\ settings_file.d.ssid = "set"

(***************************************************************************)
(* The forecast text of a sample                                           *)
(***************************************************************************)

\* The members of the document whose key is shortForecast, by position
ShortForecastAt(doc) == {i \in 1..Len(doc) : doc[i].key = "shortForecast"}

\* The value of the first shortForecast key, "N/A" for none and for an empty one
FirstShortForecast(doc) ==
  IF ShortForecastAt(doc) = {} THEN NotAvailable
  ELSE LET m == doc[MinOf(ShortForecastAt(doc))]
       IN IF m.text = "" THEN NotAvailable ELSE <<m.text>>

C24_NoSeparatorClassified ==
  (sf_pc = "done" /\ sf_forecast.type = "str") =>
    \A i \in 1..Len(Separators) : ~Contains(Retained(sf_forecast.s), Separators[i])

(***************************************************************************)
(* The modifier simplify_forecast selects                                  *)
(***************************************************************************)

\* The modifiers whose lower case occurs in the text
OccurringModifiers(text) ==
  {MODIFIERS[i] : i \in {j \in 1..Len(MODIFIERS) : Contains(text, Lower(MODIFIERS[j]))}}

\* C25: of the modifiers that occur in the text simplify_forecast classifies,
\* the selected one is the one whose first occurrence starts lowest, wherever
\* it stands in MODIFIERS; the label starts with it (in its short form); and
\* when no modifier occurs, none is selected.
C25_EarliestModifier ==
  (sf_pc = "done" /\ sf_forecast.type = "str" /\ sf_forecast.s # <<>>) =>
    LET text     == Retained(sf_forecast.s)
        selected == FoundModifier(text)
        short    == Rewritten(ModifierRewrites, selected)
    IN IF OccurringModifiers(text) = {} THEN selected = <<>>
       ELSE /\ selected \in OccurringModifiers(text)
            /\ \A m \in OccurringModifiers(text) :
                 FindStr(text, Lower(selected)) <= FindStr(text, Lower(m))
            /\ SubSeq(sf_line, 1, Len(short)) = short

\* "Partly Chance Rain": Chance stands before Partly in MODIFIERS and behind it
\* in the text; the label is "Partly Rain".
C25_Witness ==
  /\ sf_pc = "done"
  /\ sf_forecast = StrValue(<<"P", "a", "r", "t", "l", "y", " ", "C", "h", "a", "n", "c", "e", " ", "R", "a", "i", "n">>)
  /\ sf_line = <<"P", "a", "r", "t", "l", "y", " ", "R", "a", "i", "n">>

(***************************************************************************)
(* The length of "<modifier> <condition>"                                  *)
(***************************************************************************)

\* C26 as stated: when simplify_forecast has selected a modifier and a
\* condition, the phrase built from their short forms has at most 14
\* characters, so the label is that phrase whole.
C26_PhraseFitsBeforeCut ==
  (sf_pc = "done" /\ sf_forecast.type = "str" /\ sf_forecast.s # <<>>) =>
    LET text  == Retained(sf_forecast.s)
        short == Shortened(FoundModifier(text), FoundCondition(text))
    IN (FoundModifier(text) # <<>> /\ FoundCondition(text) # <<>>) =>
         /\ Len(short[1] \o <<" ">> \o short[2]) <= 14
         /\ sf_line = short[1] \o <<" ">> \o short[2]

(***************************************************************************)
(* The icon of a sample                                                    *)
(***************************************************************************)

\* C27 as stated: the icon display_weather draws is the one get_icon_filename
\* gives for the forecast text as it came, in lower case.
C27_IconOfOriginalText ==
  (sf_pc = "done" /\ sf_forecast.type = "str") =>
    sf_icon = get_icon_filename(Lower(sf_forecast.s), sf_day)

\* C27, amended: the icon display_weather draws is the one get_icon_filename
\* gives for the label, the text simplify_forecast returned and the display
\* shows; "Rain then Thunderstorms" is drawn with the rain icon of its label
\* "Rain", not with the thunderstorm icon of the text.
C27_IconOfLabel ==
  (sf_pc = "done") =>
    /\ sf_icon = get_icon_filename(sf_line, sf_day)
    /\ sf_forecast = StrValue(<<"R", "a", "i", "n", " ", "t", "h", "e", "n", " ", "T", "h", "u", "n", "d", "e", "r", "s", "t", "o", "r", "m", "s">>) =>
         /\ sf_icon = "icons/rain_rgb565.raw"
         /\ get_icon_filename(sf_forecast.s, sf_day) = "icons/tstorm_rgb565.raw"

\* "Rain then Thunderstorms" was displayed with the rain icon.
C27_Witness ==
  /\ sf_pc = "done"
  /\ sf_forecast = StrValue(<<"R", "a", "i", "n", " ", "t", "h", "e", "n", " ", "T", "h", "u", "n", "d", "e", "r", "s", "t", "o", "r", "m", "s">>)
  /\ sf_line = <<"R", "a", "i", "n">>
  /\ sf_icon = "icons/rain_rgb565.raw"

(***************************************************************************)
(* The station list                                                        *)
(***************************************************************************)

\* The "id" members of the stream that name a station, by position
StationMembers(stream) == {i \in 1..Len(stream) : stream[i] \in {"A", "B"}}

\* The station of the first of them
FirstStation(stream) ==
  IF stream[MinOf(StationMembers(stream))] = "A" THEN <<"a">> ELSE <<"b">>

\* C28 as stated: when the station list holds an "id" member that names a
\* station, fetch_first_station_id returns the station of the first such
\* member, however many other "id" members stand before it and however the
\* reads cut the stream.
C28_FirstStationReturned ==
  (sx_kind = "station_list" /\ sx_pc = "done" /\ StationMembers(sx_stream) # {}) =>
    sx_result = Some(FirstStation(sx_stream))

(***************************************************************************)
(* The requests of get_weather_data                                        *)
(***************************************************************************)

\* C29 as stated: every acquisition makes two requests to the observation
\* endpoint, one for each field, and when the temperature is not found there
\* while the humidity is, the humidity of the observation is returned.
C29_HumidityAlwaysRequested ==
  FetchedComplete =>
    /\ wx_http.observation = 2
    /\ (wx_env.obs_temp.tag = "none" /\ wx_env.obs_hum.tag = "val") =>
         wx_result[2] = Some(wx_env.obs_hum.v \div 10)

\* C30 as stated: while get_weather_data runs, at most one response is open.
C30_OneResponseOpen == wx_pc = "done" => wx_http.max_open <= 1

(***************************************************************************)
(* The primary temperature and the fallback                                *)
(***************************************************************************)

\* C31 as stated: when the observation gave a temperature and no humidity, the
\* temperature get_weather_data returns is the converted temperature of the
\* observation, however the hourly request of the temperature ends.
C31_PrimaryTemperatureKept ==
  (FetchedComplete /\ wx_env.obs_temp.tag = "val" /\ wx_env.obs_hum.tag = "none") =>
    wx_result[1] = Some(ToFahrenheit(wx_env.obs_temp.v))

(***************************************************************************)
(* The flag between the interrupt and the loop                             *)
(***************************************************************************)

\* The step is setup_sw_handler serving the release of a button that was
\* really held for the threshold or longer.
QualifyingRelease ==
  /\ press_time # NoneVal
  /\ press_time' = NoneVal
  /\ btn_evt' = "release"
  /\ btn_held >= LongPress

\* C32: start_update_requested becomes True only in the interrupt handler at a
\* qualifying release, and every such release leaves it True; it becomes False
\* only in the clear of the loop, which is followed by start_update_mode; update
\* mode starts only from the loop, behind a test that read True and the clear;
\* and a request raised while the flag was False stays raised, or is just
\* being served, until update mode starts, however the interrupt falls between
\* the test and the clear.
C32_FlagDiscipline ==
  /\ [](btn_pending => (start_update_requested \/ loop_pc = "start"))
  /\ [](loop_pc = "start" => ~app_updating)
  /\ [][/\ (~start_update_requested /\ start_update_requested') => QualifyingRelease
        /\ QualifyingRelease => start_update_requested'
        /\ (start_update_requested /\ ~start_update_requested') =>
              (loop_pc = "clear" /\ loop_pc' = "start")
        /\ (loop_pc # "clear" /\ loop_pc' = "clear") =>
              (loop_pc = "test" /\ start_update_requested)
        /\ (loop_pc # "start" /\ loop_pc' = "start") => loop_pc = "clear"
        /\ (~app_updating /\ app_updating') => loop_pc = "start"]_vars

\* C32 witness: the interrupt of a qualifying release was served right after
\* the test had read False, and the request waits for the next test.
C32_Witness ==
  /\ loop_pc = "pass"
  /\ btn_evt = "release"
  /\ ~btn_before.flag
  /\ btn_pending
  /\ start_update_requested

\* C33: a request raised by a qualifying hold while application_mode runs is
\* followed by update mode, and the first test that meets it goes to the
\* clear: no pass of the loop is made with the request seen and not taken.
C33_RequestLeadsToUpdating ==
  /\ btn_pending ~> app_updating
  /\ [][(btn_pending /\ loop_pc = "test" /\ loop_pc' # "test") => loop_pc' = "clear"]_vars

\* C33 witness: update mode has started after a long press, and the flag is
\* consumed.
C33_Witness ==
  /\ app_updating
  /\ long_press_triggered
  /\ ~start_update_requested
  /\ ~btn_pending

(***************************************************************************)
(* Live files in update mode                                               *)
(***************************************************************************)

\* C34 as stated: whatever the requests and the file names of the uploads, a
\* file under a live name (one that is not staged) is created, overwritten or
\* removed only by a finalize that has found every manifest entry verified;
\* an upload leaves every live file as it was.
C34_LiveFilesOnlyByVerifiedFinalize ==
  [][(\E b \in Bases : fs'[<<b, FALSE>>] # fs[<<b, FALSE>>]) =>
       (FinalizeStep /\ ~SomeEntryFails(expected_checksums, fs))]_vars

(***************************************************************************)
(* A finalize without a manifest                                           *)
(***************************************************************************)

\* C35 as stated: when a finalize has answered "Update verified and applied",
\* a manifest with at least one entry had been received and the finalize has
\* verified at least one staged file against it.
C35_SuccessNeedsManifest ==
  upd_resp = Resp("finalize", 200) =>
    /\ expected_checksums # <<>>
    /\ \E i \in DOMAIN fin_log : fin_log[i].op = "verify"

(***************************************************************************)
(* A rename that fails in the middle of the apply                          *)
(***************************************************************************)

\* The manifest entries the rename loop applies, by position
EligibleEntries(m) == {k \in DOMAIN m : Eligible(m[k][1])}

\* C36 as stated: when finalize has returned, it has renamed into place every
\* eligible staged file of the manifest or none of them.
C36_ApplyAllOrNothing ==
  upd_resp.handler = "finalize" =>
    LET renamed == {i \in DOMAIN fin_log : fin_log[i].op = "rename"}
    IN \/ Cardinality(renamed) = Cardinality(EligibleEntries(expected_checksums))
       \/ renamed = {}

(***************************************************************************)
(* application_mode without a location                                     *)
(***************************************************************************)

\* C37 as stated: when the settings application_mode gets hold no lat and no
\* lon (the settings were valid without them and the lookup of the boot
\* sequence failed, so it added none), application_mode goes on to its loop
\* without a reset and the display shows "Location data unavailable".
C37_RunsWithoutLocation ==
  (run_latlon = "absent" /\ run_pc # "start") =>
    /\ run_pc = "loop"
    /\ run_screen = "location_unavailable"

(***************************************************************************)
(* The number of Wi-Fi attempts                                            *)
(***************************************************************************)

\* The calls of connect_to_wifi the loop has made: wifi_current_attempt numbers
\* the attempt to come, and stays at the number of the one that connected.
AttemptsMade ==
  IF wifi_connected THEN wifi_current_attempt ELSE wifi_current_attempt - 1

\* C38 as stated: when the connection loop has ended without a connection it
\* has made WIFI_MAX_ATTEMPTS attempts, and once an attempt has connected no
\* further attempt is made.
C38_ThreeAttempts ==
  /\ (boot_pc = "wifi_done" /\ ~wifi_connected) => AttemptsMade = WIFI_MAX_ATTEMPTS
  /\ wifi_connected => boot_pc # "wifi"

(***************************************************************************)
(* The setup switch at boot                                                *)
(***************************************************************************)

\* C39 as stated: the step of the boot sequence that reads the setup switch
\* removes the settings file and resets only when the switch read pressed at
\* the first read, at every test of the whole countdown and behind it; when
\* some read found it released the file is as it was and the boot goes on to
\* load_settings (a settings file is on flash when the step begins).
C39_DeleteOnlyAfterFullHold ==
  [][(boot_pc = "boot" /\ settings_file # FileMissing) =>
       IF boot_switch' = "held"
       THEN settings_file' = FileMissing /\ boot_pc' = "boot"
       ELSE settings_file' = settings_file /\ boot_pc' = "load"]_vars

(***************************************************************************)
(* Readings below zero                                                     *)
(***************************************************************************)

\* The number a text denotes, in tenths
Denoted(text) ==
  IF text[1] = "-" THEN 0 - Tenths(ToFloat(Tail(text))) ELSE Tenths(ToFloat(text))

\* C40 as stated: for an observation whose temperature value is the text of a
\* decimal number, below zero or not, get_weather_data returns the Fahrenheit
\* conversion of that number as the temperature.
C40_NegativeReadingConverted ==
  \A text \in ReadingTexts, fb \in ReadingFallbacks :
    (FetchedComplete /\ wx_env = Reading(text, fb)) =>
      wx_result[1] = Some(ToFahrenheit(Denoted(text)))

====
